---- MODULE Spec2Model ----
(***************************************************************************)
(* A model of zellij-bookmarks (src/src/main.rs, filters.rs, render.rs):   *)
(* the plugin State, its key-event handlers, the filter predicates and the *)
(* command resolution (gen_command / gen_template_command).                *)
(*                                                                         *)
(* A Rust String is a finite sequence of atoms (TLA+ strings): single      *)
(* characters where the code looks at characters (filter text, names,      *)
(* labels, decimal ids), words where it only compares, strips a prefix,    *)
(* trims or concatenates (command templates).  Option<T> is a record       *)
(* [some |-> FALSE] or [some |-> TRUE, v |-> x]; Result<String, String> is *)
(* [ok |-> BOOLEAN, val |-> string or message].                            *)
(***************************************************************************)
EXTENDS Integers, Sequences, FiniteSets, TLC

VARIABLES
    mode,               \* State.mode: "Bookmarks" | "Labels" | "Usage"
    exec,               \* State.exec
    ignore_case,        \* State.ignore_case
    detect_filter_mode, \* State.detect_filter_mode
    filter_mode,        \* State.filter_mode: "Name" | "ID" | "Label"
    filter,             \* State.filter
    bookmarks_mgr,      \* State.bookmarks_mgr: TabManager<Bookmark>
    labels_mgr,         \* State.labels_mgr: TabManager<Label>
    config,             \* State.config
    error_message,      \* State.error_message: Option<String>
    written,            \* what the last callback passed to write_chars: Option<String>
    gen,                \* the gen_command call of the last callback, with its history
    call                \* a direct call of a function: its arguments, and what it
                        \* returned once it has

vars == <<mode, exec, ignore_case, detect_filter_mode, filter_mode, filter,
          bookmarks_mgr, labels_mgr, config, error_message, written, gen,
          call>>

----------------------------------------------------------------------------
(* Option and Result *)

None == [some |-> FALSE]

Some(x) == [some |-> TRUE, v |-> x]

Ok(s) == [ok |-> TRUE, val |-> s]

Err(s) == [ok |-> FALSE, val |-> s]

----------------------------------------------------------------------------
(* Strings *)

\* str::strip_prefix: Some(rest) when s starts with p, None otherwise.
StripPrefix(s, p) ==
    IF Len(s) >= Len(p) /\ SubSeq(s, 1, Len(p)) = p
    THEN Some(SubSeq(s, Len(p) + 1, Len(s)))
    ELSE None

\* char::is_whitespace on the atoms of a command string.
IsWhitespace(a) == a \in {" ", "\n", "\t"}

RECURSIVE TrimStart(_)
\* str::trim_start
TrimStart(s) ==
    IF s # <<>> /\ IsWhitespace(Head(s)) THEN TrimStart(Tail(s)) ELSE s

RECURSIVE TrimEnd(_)
\* str::trim_end
TrimEnd(s) ==
    IF s # <<>> /\ IsWhitespace(s[Len(s)])
    THEN TrimEnd(SubSeq(s, 1, Len(s) - 1))
    ELSE s

RECURSIVE Join(_, _)
\* [String]::join(sep)
Join(ss, sep) ==
    IF ss = <<>> THEN <<>>
    ELSE IF Len(ss) = 1 THEN ss[1]
    ELSE ss[1] \o sep \o Join(Tail(ss), sep)

\* HashMap::extend: the entries of m2 are inserted into m1, replacing on equal keys.
Extend(m1, m2) ==
    [k \in (DOMAIN m1) \cup (DOMAIN m2) |->
        IF k \in DOMAIN m2 THEN m2[k] ELSE m1[k]]

\* The empty HashMap.
EmptyMap == [k \in {} |-> <<>>]

----------------------------------------------------------------------------
(* Command resolution: main.rs, gen_command and what it calls *)

BookmarkPrefix == <<"bookmark::">>

CmdPrefix == <<"cmd::">>

CmdSeparator == <<" ", "\\", "\n", "&&", " ">>

\* The placeholders of the templates of the model, and the key each names.
Placeholders == {"{{x}}"}

PlaceholderKey(a) == CASE a = "{{x}}" -> <<"x">>

\* A template atom Handlebars cannot parse (an unclosed expression).
Malformed == "{{"

\* Handlebars' default escape function (html_escape), on one atom.
HtmlEscapeAtom(a) ==
    CASE a = "&" -> "&amp;"
      [] a = "<" -> "&lt;"
      [] a = ">" -> "&gt;"
      [] a = "\"" -> "&quot;"
      [] OTHER -> a

HtmlEscape(s) == [i \in 1..Len(s) |-> HtmlEscapeAtom(s[i])]

RECURSIVE RenderAtoms(_, _)
\* Handlebars::render_template on a template with no malformed atom: a
\* placeholder becomes the escaped value of its key, or nothing when the key is
\* absent (Handlebars::new() is not in strict mode); other text is copied.
RenderAtoms(template, vs) ==
    IF template = <<>> THEN <<>>
    ELSE LET a == Head(template)
             piece == IF a \in Placeholders
                      THEN IF PlaceholderKey(a) \in DOMAIN vs
                           THEN HtmlEscape(vs[PlaceholderKey(a)])
                           ELSE <<>>
                      ELSE <<a>>
         IN  piece \o RenderAtoms(Tail(template), vs)

\* Handlebars::render_template: Err on a template that does not parse.
RenderTemplate(template, vs) ==
    IF \E i \in 1..Len(template) : template[i] = Malformed
    THEN Err(<<"<handlebars error>">>)
    ELSE Ok(RenderAtoms(template, vs))

\* Mutant: the global vars win over the bookmark's.
GenTemplateWithVarsGlobalWins(cfg, template, bookmark) ==
    LET vs == Extend(bookmark.vars, cfg.vars)
        r == RenderTemplate(template, vs)
    IN  IF r.ok
        THEN Ok(TrimEnd(TrimStart(r.val)))
        ELSE Err(<<"Template rendering error: ">> \o r.val)

\* State::gen_template_with_vars
GenTemplateWithVars(cfg, template, bookmark) ==
    LET vs == Extend(cfg.vars, bookmark.vars)
        r == RenderTemplate(template, vs)
    IN  IF r.ok
        THEN Ok(TrimEnd(TrimStart(r.val)))
        ELSE Err(<<"Template rendering error: ">> \o r.val)

\* config.bookmarks.iter().find(|b| b.name == name)
FindBookmark(cfg, name) ==
    LET hits == {i \in 1..Len(cfg.bookmarks) : cfg.bookmarks[i].name = name}
    IN  IF hits = {} THEN None
        ELSE Some(cfg.bookmarks[CHOOSE i \in hits : \A j \in hits : i <= j])

CircularMsg(name) ==
    <<"Circular dependency detected for bookmark '">> \o name \o <<"'">>

BookmarkNotFoundMsg(name) == <<"Bookmark '">> \o name \o <<"' not found">>

\* Mutant: the message of the other not-found error.
CmdNotFoundMsgAsBookmark(key) == <<"Bookmark '">> \o key \o <<"' not found">>

CmdNotFoundMsg(key) == <<"Command key '">> \o key \o <<"' not found in cmds">>

StackOverflowMsg == <<"<stack overflow>">>

\* The deepest recursion level the model follows (the root call is level 0): one
\* level beyond the catalog size, so that a recursion deeper than the catalog is
\* seen before it is cut. The program has no such limit; its stack has.
StackLimit(cfg) == Len(cfg.bookmarks) + 1

\* Mutant: the HashSet of the call before is the one the next call starts with.
NoHistoryLeaks ==
    [processed |-> IF gen.some THEN gen.v.r.h.processed ELSE {},
     trace |-> <<>>, depth |-> 0, revisit |-> None]

\* The history of one gen_command call, kept beside the HashSet `processed` the
\* code threads through the recursion:
\*   processed  the HashSet itself
\*   trace      the names gen_template_command was called with, in call order
\*   depth      the deepest recursion level of a call (root call: 0)
\*   revisit    the call that found its name in `processed`, and whether that
\*              name was an ancestor of the call (a true cycle)
NoHistory == [processed |-> {}, trace |-> <<>>, depth |-> 0, revisit |-> None]

\* Mutant: insert reports whether the value is new and does not keep it.
SetInsertForgets(set, x) == [fresh |-> x \notin set, set |-> set]

\* Mutant: insert reports every value as new.
SetInsertAlwaysFresh(set, x) == [fresh |-> TRUE, set |-> set \cup {x}]

\* HashSet::insert: whether the value was newly inserted, and the set after.
SetInsert(set, x) == [fresh |-> x \notin set, set |-> set \cup {x}]

\* Mutant: the referenced bookmark's own vars win over the referrer's.
DepBookmarkOwnWins(dep, bookmark) ==
    [dep EXCEPT !.vars = Extend(bookmark.vars, dep.vars)]

\* main.rs 443-444: the clone of the referenced bookmark, with the referring
\* bookmark's vars extended into its own.
DepBookmark(dep, bookmark) ==
    [dep EXCEPT !.vars = Extend(dep.vars, bookmark.vars)]

\* Mutant: the recursive call works on a copy of `processed`, so the set is
\* scoped to the recursion path.
AfterDepScoped(h, r) == [r.h EXCEPT !.processed = h.processed]

\* main.rs 446: `processed` is passed as &mut, so what the recursive call
\* inserted is there for the tokens that follow it.
AfterDep(h, r) == r.h

Max(a, b) == IF a >= b THEN a ELSE b

RECURSIVE GenTemplateCommand(_, _, _, _)
RECURSIVE GenCmds(_, _, _, _, _, _)

\* main.rs 435-462: the loop over bookmark.cmds from token i on; cmds holds the
\* strings pushed so far. An Err ends the loop at once (the ? operator and the
\* return Err lines); after the last token the strings are joined.
GenCmds(cfg, bookmark, i, cmds, h, path) ==
    IF i > Len(bookmark.cmds)
    THEN [ok |-> TRUE, val |-> Join(cmds, CmdSeparator), h |-> h]
    ELSE
    LET cmd == bookmark.cmds[i]
        dep_name == StripPrefix(cmd, BookmarkPrefix)
        cmd_key == StripPrefix(cmd, CmdPrefix)
    IN  IF dep_name.some
        THEN LET found == FindBookmark(cfg, dep_name.v)
             IN  IF found.some
                 THEN LET r == GenTemplateCommand(
                                   cfg, DepBookmark(found.v, bookmark), h, path)
                      IN  IF r.ok
                          THEN GenCmds(cfg, bookmark, i + 1,
                                       Append(cmds, r.val), AfterDep(h, r),
                                       path)
                          ELSE r
                 ELSE [ok |-> FALSE, val |-> BookmarkNotFoundMsg(dep_name.v),
                       h |-> h]
        ELSE IF cmd_key.some
        THEN IF cmd_key.v \in DOMAIN cfg.cmds
             THEN LET r == GenTemplateWithVars(cfg, cfg.cmds[cmd_key.v], bookmark)
                  IN  IF r.ok
                      THEN GenCmds(cfg, bookmark, i + 1,
                                   Append(cmds, r.val), h, path)
                      ELSE [ok |-> FALSE, val |-> r.val, h |-> h]
             ELSE [ok |-> FALSE, val |-> CmdNotFoundMsg(cmd_key.v), h |-> h]
        ELSE LET r == GenTemplateWithVars(cfg, cmd, bookmark)
             IN  IF r.ok
                 THEN GenCmds(cfg, bookmark, i + 1, Append(cmds, r.val), h, path)
                 ELSE [ok |-> FALSE, val |-> r.val, h |-> h]

\* State::gen_template_command. path holds the names of the calls this call is
\* nested in (it is the call stack, not a value of the program).
GenTemplateCommand(cfg, bookmark, h, path) ==
    LET h1 == [h EXCEPT !.trace = Append(@, bookmark.name),
                        !.depth = Max(@, Len(path))]
        ins == SetInsert(h.processed, bookmark.name)
    IN  IF Len(path) > StackLimit(cfg)
        THEN [ok |-> FALSE, val |-> StackOverflowMsg, h |-> h1]
        ELSE IF ~ins.fresh
        THEN [ok |-> FALSE, val |-> CircularMsg(bookmark.name),
              h |-> [h1 EXCEPT !.revisit =
                        Some([name |-> bookmark.name,
                              on_path |-> \E k \in 1..Len(path) :
                                              path[k] = bookmark.name])]]
        ELSE GenCmds(cfg, bookmark, 1, <<>>,
                     [h1 EXCEPT !.processed = ins.set],
                     Append(path, bookmark.name))

\* Mutant: the plugin's exec cannot be switched off by a bookmark.
EffectiveExecOr(bookmark, default_exec) ==
    default_exec \/ (bookmark.exec.some /\ bookmark.exec.v)

\* bookmark.exec.unwrap_or(self.exec)
EffectiveExec(bookmark, default_exec) ==
    IF bookmark.exec.some THEN bookmark.exec.v ELSE default_exec

\* State::gen_command
GenCommand(cfg, default_exec, bookmark) ==
    LET r == GenTemplateCommand(cfg, bookmark, NoHistory, <<>>)
    IN  IF ~r.ok THEN r
        ELSE IF EffectiveExec(bookmark, default_exec)
        THEN [r EXCEPT !.val = Append(@, "\n")]
        ELSE r
----------------------------------------------------------------------------
(* Filter predicates: filters.rs *)

\* char::to_lowercase on the characters of the model.
LowerChar(c) ==
    CASE c = "D" -> "d"
      [] c = "E" -> "e"
      [] c = "V" -> "v"
      [] OTHER -> c

\* str::to_lowercase
ToLowercase(s) == [i \in 1..Len(s) |-> LowerChar(s[i])]

\* str::contains
Contains(s, sub) ==
    \E i \in 0..(Len(s) - Len(sub)) : SubSeq(s, i + 1, i + Len(sub)) = sub

\* str::starts_with
StartsWith(s, p) == Len(s) >= Len(p) /\ SubSeq(s, 1, Len(p)) = p

DigitChar(d) ==
    CASE d = 0 -> "0" [] d = 1 -> "1" [] d = 2 -> "2" [] d = 3 -> "3"
      [] d = 4 -> "4" [] d = 5 -> "5" [] d = 6 -> "6" [] d = 7 -> "7"
      [] d = 8 -> "8" [] d = 9 -> "9"

RECURSIVE ToDecimal(_)
\* usize::to_string
ToDecimal(n) ==
    IF n < 10 THEN <<DigitChar(n)>>
    ELSE Append(ToDecimal(n \div 10), DigitChar(n % 10))

\* filters::Mode::default
DefaultFilterMode == "Name"

\* Mutant: the mode asked for, whatever the current one.
SwitchToNoToggle(self, m) == m

\* filters::Mode::switch_to
SwitchTo(self, m) == IF self = m THEN DefaultFilterMode ELSE m

\* LabelFilter::new
LabelFilterNew(m, text, ic) ==
    [type |-> "LabelFilter", mode |-> m, filter |-> text, ignore_case |-> ic]

\* BookmarkFilter::new
BookmarkFilterNew(m, text, ic) ==
    [type |-> "BookmarkFilter", mode |-> m, filter |-> text, ignore_case |-> ic]

\* LabelFilter::keep_by_name
LabelKeepByName(f, label) ==
    IF f.filter = <<>> THEN TRUE
    ELSE LET ft == IF f.ignore_case THEN ToLowercase(f.filter) ELSE f.filter
             l == IF f.ignore_case THEN ToLowercase(label.name) ELSE label.name
         IN  l = ft \/ Contains(l, ft)

\* LabelFilter::keep_by_id
LabelKeepById(f, label) == StartsWith(ToDecimal(label.id), f.filter)

\* Mutant: in Label mode a label is kept when its name is the filter text.
LabelKeepExactInLabelMode(f, label) ==
    CASE f.mode = "ID" -> LabelKeepById(f, label)
      [] f.mode = "Label" ->
            f.filter = <<>> \/ (IF f.ignore_case
                                THEN ToLowercase(label.name) = ToLowercase(f.filter)
                                ELSE label.name = f.filter)
      [] OTHER -> LabelKeepByName(f, label)

\* impl Filter<Label> for LabelFilter
LabelKeep(f, label) ==
    IF f.mode = "ID" THEN LabelKeepById(f, label) ELSE LabelKeepByName(f, label)

\* BookmarkFilter::get_filter
GetFilter(f) == IF f.ignore_case THEN ToLowercase(f.filter) ELSE f.filter

\* Mutant: an empty filter text is compared with the labels like any other.
BookmarkKeepByLabelNoEmptyCheck(f, bookmark) ==
    LET ft == GetFilter(f)
    IN  \E i \in 1..Len(bookmark.labels) :
            LET l == bookmark.labels[i]
            IN  IF f.ignore_case
                THEN ToLowercase(ft) = ToLowercase(l)
                ELSE ft = l

\* Mutant: a label matches when it contains the filter text.
BookmarkKeepByLabelContains(f, bookmark) ==
    LET ft == GetFilter(f)
    IN  IF ft = <<>> THEN TRUE
        ELSE \E i \in 1..Len(bookmark.labels) :
                 LET l == bookmark.labels[i]
                 IN  IF f.ignore_case
                     THEN Contains(ToLowercase(l), ToLowercase(ft))
                     ELSE Contains(l, ft)

\* BookmarkFilter::keep_by_label
BookmarkKeepByLabel(f, bookmark) ==
    LET ft == GetFilter(f)
    IN  IF ft = <<>> THEN TRUE
        ELSE \E i \in 1..Len(bookmark.labels) :
                 LET l == bookmark.labels[i]
                 IN  IF f.ignore_case
                     THEN ToLowercase(ft) = ToLowercase(l)
                     ELSE ft = l

\* BookmarkFilter::keep_by_name
BookmarkKeepByName(f, bookmark) ==
    LET ft == IF f.ignore_case THEN ToLowercase(GetFilter(f)) ELSE GetFilter(f)
        name == IF f.ignore_case THEN ToLowercase(bookmark.name)
                ELSE bookmark.name
    IN  name = ft \/ Contains(name, ft)

\* Mutant: the decimal id contains the filter text.
BookmarkKeepByIdContains(f, bookmark) ==
    Contains(ToDecimal(bookmark.id), f.filter)

\* BookmarkFilter::keep_by_id
BookmarkKeepById(f, bookmark) == StartsWith(ToDecimal(bookmark.id), f.filter)

\* impl Filter<Bookmark> for BookmarkFilter
BookmarkKeep(f, bookmark) ==
    CASE f.mode = "Name" -> BookmarkKeepByName(f, bookmark)
      [] f.mode = "ID" -> BookmarkKeepById(f, bookmark)
      [] f.mode = "Label" -> BookmarkKeepByLabel(f, bookmark)

\* Filter<T>::keep through a Box<dyn Filter<T>>: the implementation of the
\* value's own type.
Keep(f, t) ==
    IF f.type = "BookmarkFilter" THEN BookmarkKeep(f, t) ELSE LabelKeep(f, t)

----------------------------------------------------------------------------
(* TabManager<T>: src/tab_manager.rs is not among the sources; this is the  *)
(* List Manager of spec.md section 4.2.                                     *)

\* construct(catalog): filtered view = full catalog; cursor = 0.
TabManagerNew(items) == [items |-> items, filtered |-> items, selected |-> 0]

\* TabManager::default, the field values of State::default()
TabManagerDefault == TabManagerNew(<<>>)

\* Mutant: the filter is applied and the cursor stays where it was.
WithFilterKeepsCursor(mgr, f) ==
    [mgr EXCEPT !.filtered = SelectSeq(mgr.items, LAMBDA t : Keep(f, t))]

\* apply_filter(predicate)
WithFilter(mgr, f) ==
    [mgr EXCEPT !.filtered = SelectSeq(mgr.items, LAMBDA t : Keep(f, t)),
                !.selected = 0]

\* select_down()
SelectDown(mgr) ==
    IF mgr.selected + 1 < Len(mgr.filtered)
    THEN [mgr EXCEPT !.selected = @ + 1]
    ELSE mgr

\* select_up()
SelectUp(mgr) ==
    IF mgr.selected > 0 THEN [mgr EXCEPT !.selected = @ - 1] ELSE mgr

\* reset_selection()
ResetSelection(mgr) == [mgr EXCEPT !.selected = 0]

\* get_selected()
GetSelected(mgr) ==
    IF mgr.selected < Len(mgr.filtered)
    THEN Some(mgr.filtered[mgr.selected + 1])
    ELSE None

\* length()
MgrLen(mgr) == Len(mgr.filtered)

\* position()
GetPosition(mgr) == mgr.selected
----------------------------------------------------------------------------
(* The main menu: render.rs *)

\* main.rs 31
RESERVE_ROW_COUNT == 5

\* usize::saturating_sub
SaturatingSub(a, b) == IF a >= b THEN a - b ELSE 0

\* a - b on usize: the difference, or None when b exceeds a (the subtraction
\* panics or wraps, as the build has it).
CheckedSub(a, b) == IF a >= b THEN Some(a - b) ELSE None

\* main_menu_size
MainMenuSize(rows, cols) ==
    [x |-> 0, y |-> 0, width |-> cols,
     height |-> SaturatingSub(rows, RESERVE_ROW_COUNT)]

\* Mutant: the window starts one row higher.
MenuWindowOneMore(selected, height) ==
    IF selected >= height
    THEN [begin |-> CheckedSub(selected, height), end |-> Some(selected)]
    ELSE [begin |-> Some(0), end |-> CheckedSub(height, 1)]

\* render.rs 22-26: (begin, end)
MenuWindow(selected, height) ==
    IF selected >= height
    THEN [begin |-> CheckedSub(selected + 1, height), end |-> Some(selected)]
    ELSE [begin |-> Some(0), end |-> CheckedSub(height, 1)]

\* render_right_counter: the number it draws after "+", if it draws.
RenderRightCounter(count) == IF count = 0 THEN None ELSE Some(count)

\* render_right_counter_with_max
RenderRightCounterWithMax(count, max_count) ==
    IF count = max_count THEN None ELSE RenderRightCounter(count)

\* render.rs 33-45: the indices of the rows drawn, of an iterator over the
\* indices 0..count-1 of the view.
MenuRows(begin, end, count) ==
    LET last == IF end < count - 1 THEN end ELSE count - 1
    IN  [k \in 1..(IF last >= begin THEN last - begin + 1 ELSE 0) |->
            begin + k - 1]

\* render.rs 50-52: the counter below the rows.
MenuBelow(end, count) ==
    IF count > end
    THEN LET c1 == CheckedSub(count, 1)
             c2 == IF c1.some THEN CheckedSub(c1.v, end) ELSE None
         IN  IF c2.some
             THEN [underflow |-> FALSE,
                   drawn |-> RenderRightCounterWithMax(c2.v, count)]
             ELSE [underflow |-> TRUE, drawn |-> None]
    ELSE [underflow |-> FALSE, drawn |-> None]

\* render_main_menu: the window, the rows and the two counters it draws, or
\* that one of its subtractions has no difference in usize.
RenderMainMenu(rows, cols, selected, count) ==
    LET size == MainMenuSize(rows, cols)
        w == MenuWindow(selected, size.height)
    IN  IF ~w.begin.some \/ ~w.end.some
        THEN [underflow |-> TRUE, begin |-> 0, end |-> 0, above |-> None,
              rows |-> <<>>, below |-> None]
        ELSE LET below == MenuBelow(w.end.v, count)
             IN  [underflow |-> below.underflow,
                  begin |-> w.begin.v,
                  end |-> w.end.v,
                  above |-> RenderRightCounter(w.begin.v),
                  rows |-> MenuRows(w.begin.v, w.end.v, count),
                  below |-> below.drawn]

----------------------------------------------------------------------------
(* The plugin state: main.rs, struct State and impl State *)

\* The State struct as one value (the variables of the model, field by field).
Self ==
    [mode |-> mode, exec |-> exec, ignore_case |-> ignore_case,
     detect_filter_mode |-> detect_filter_mode, filter_mode |-> filter_mode,
     filter |-> filter, bookmarks_mgr |-> bookmarks_mgr,
     labels_mgr |-> labels_mgr, config |-> config,
     error_message |-> error_message]

\* Config::default
ConfigDefault == [vars |-> EmptyMap, cmds |-> EmptyMap, bookmarks |-> <<>>]

\* State::default
StateDefault ==
    [mode |-> "Bookmarks", exec |-> FALSE, ignore_case |-> TRUE,
     detect_filter_mode |-> TRUE, filter_mode |-> DefaultFilterMode,
     filter |-> <<>>, bookmarks_mgr |-> TabManagerDefault,
     labels_mgr |-> TabManagerDefault, config |-> ConfigDefault,
     error_message |-> None]

\* enum Mode, #[repr(u32)]: `mode as u32`
ModeAsU32(m) ==
    CASE m = "Bookmarks" -> 1 [] m = "Labels" -> 2 [] m = "Usage" -> 3

\* Mode::try_from(u32) (TryFromPrimitive)
ModeTryFrom(n) ==
    CASE n = 1 -> Some("Bookmarks")
      [] n = 2 -> Some("Labels")
      [] n = 3 -> Some("Usage")
      [] OTHER -> None

\* u32::saturating_sub(1)
SaturatingDec(n) == IF n = 0 THEN 0 ELSE n - 1

\* Mode::next: saturating_add(1) cannot saturate on 1..3.
ModeNext(m) ==
    LET t == ModeTryFrom(ModeAsU32(m) + 1)
    IN  IF t.some THEN t.v ELSE "Bookmarks"

\* Mutant: prev stops at the first mode.
ModePrevNoWrap(m) ==
    LET t == ModeTryFrom(SaturatingDec(ModeAsU32(m)))
    IN  IF t.some THEN t.v ELSE "Bookmarks"

\* Mode::prev
ModePrev(m) ==
    LET t == ModeTryFrom(SaturatingDec(ModeAsU32(m)))
    IN  IF t.some THEN t.v ELSE "Usage"

\* Mutant: the filter is built with the default filter mode.
BookmarkFilterOfDefaultMode(self) ==
    BookmarkFilterNew(DefaultFilterMode, self.filter, self.ignore_case)

\* State::bookmark_filter
BookmarkFilterOf(self) ==
    BookmarkFilterNew(self.filter_mode, self.filter, self.ignore_case)

\* State::label_filter
LabelFilterOf(self) ==
    LabelFilterNew(self.filter_mode, self.filter, self.ignore_case)

\* State::set_filter
SetFilter(self) ==
    CASE self.mode = "Bookmarks" ->
            [self EXCEPT !.bookmarks_mgr = WithFilter(@, BookmarkFilterOf(self))]
      [] self.mode = "Labels" ->
            [self EXCEPT !.labels_mgr = WithFilter(@, LabelFilterOf(self))]
      [] OTHER -> self

\* State::reset_selection
ResetSelectionAll(self) ==
    [self EXCEPT !.bookmarks_mgr = ResetSelection(@),
                 !.labels_mgr = ResetSelection(@)]

\* State::handle_error
HandleError(self, msg) == [self EXCEPT !.error_message = Some(msg)]

RECURSIVE DeserializeLoopKeepsId(_, _, _, _, _)
\* Mutant: an entry keeps the id the file gave it.
DeserializeLoopKeepsId(bookmarks, i, result, uniq, duplicate_count) ==
    IF i > Len(bookmarks)
    THEN [result |-> result, duplicate_count |-> duplicate_count]
    ELSE LET ins == SetInsert(uniq, bookmarks[i].name)
         IN  IF ~ins.fresh
             THEN DeserializeLoopKeepsId(bookmarks, i + 1, result, ins.set,
                                         duplicate_count + 1)
             ELSE DeserializeLoopKeepsId(bookmarks, i + 1,
                                         Append(result, bookmarks[i]),
                                         ins.set, duplicate_count)

RECURSIVE DeserializeLoop(_, _, _, _, _)
\* main.rs 82-89: the loop of deserialize_bookmarks from entry i on.
DeserializeLoop(bookmarks, i, result, uniq, duplicate_count) ==
    IF i > Len(bookmarks)
    THEN [result |-> result, duplicate_count |-> duplicate_count]
    ELSE LET ins == SetInsert(uniq, bookmarks[i].name)
         IN  IF ~ins.fresh
             THEN DeserializeLoop(bookmarks, i + 1, result, ins.set,
                                  duplicate_count + 1)
             ELSE DeserializeLoop(bookmarks, i + 1,
                                  Append(result, [bookmarks[i] EXCEPT !.id = i]),
                                  ins.set, duplicate_count)

\* Mutant: the entries with a new name are returned, the others dropped.
DeserializeBookmarksKeepsUnique(bookmarks) ==
    Ok(DeserializeLoop(bookmarks, 1, <<>>, {}, 0).result)

\* deserialize_bookmarks: enumerate() counts from 0 and id = i + 1, which is
\* the 1-based index i of the loop above.
DeserializeBookmarks(bookmarks) ==
    LET r == DeserializeLoop(bookmarks, 1, <<>>, {}, 0)
    IN  IF r.duplicate_count > 0
        THEN Err(<<"Duplicate bookmarks names: ">>
                 \o ToDecimal(r.duplicate_count))
        ELSE Ok(r.result)

RECURSIVE LabelsLoop(_, _, _, _, _, _)
\* main.rs 243-250: the loops of load_config over the bookmarks (from b on) and
\* their labels (from l on).
LabelsLoop(bookmarks, b, l, set, labels, label_id) ==
    IF b > Len(bookmarks) THEN labels
    ELSE IF l > Len(bookmarks[b].labels)
    THEN LabelsLoop(bookmarks, b + 1, 1, set, labels, label_id)
    ELSE LET label == bookmarks[b].labels[l]
             ins == SetInsert(set, label)
         IN  IF ins.fresh
             THEN LabelsLoop(bookmarks, b, l + 1, ins.set,
                             Append(labels, [id |-> label_id, name |-> label]),
                             label_id + 1)
             ELSE LabelsLoop(bookmarks, b, l + 1, ins.set, labels, label_id)

\* What is on disk at the path of the configuration file: nothing readable, text
\* serde_yaml rejects, or a document with vars, cmds and bookmarks.
UnreadableFile == [kind |-> "unreadable"]

GarbageFile == [kind |-> "garbage"]

YamlFile(vs, cmds, bookmarks) ==
    [kind |-> "yaml", vars |-> vs, cmds |-> cmds, bookmarks |-> bookmarks]

\* main.rs 233-238: open, read and parse; the Config or the error.
ParseConfig(file) ==
    IF file.kind = "unreadable" THEN Err(<<"<io error>">>)
    ELSE IF file.kind = "garbage" THEN Err(<<"<yaml error>">>)
    ELSE LET b == DeserializeBookmarks(file.bookmarks)
         IN  IF b.ok
             THEN [ok |-> TRUE,
                   val |-> [vars |-> file.vars, cmds |-> file.cmds,
                            bookmarks |-> b.val]]
             ELSE b

\* Mutant: the reload keeps the label list it had.
LoadConfigKeepsLabels(self, file) ==
    LET c == ParseConfig(file)
    IN  IF ~c.ok THEN [ok |-> FALSE, err |-> c.val, self |-> self]
        ELSE [ok |-> TRUE, err |-> <<>>,
              self |-> [self EXCEPT
                  !.bookmarks_mgr = TabManagerNew(c.val.bookmarks),
                  !.config = c.val]]

\* Mutant: a load that fails leaves empty lists behind.
LoadConfigClearsOnError(self, file) ==
    LET c == ParseConfig(file)
    IN  IF ~c.ok
        THEN [ok |-> FALSE, err |-> c.val,
              self |-> [self EXCEPT !.labels_mgr = TabManagerNew(<<>>),
                                    !.bookmarks_mgr = TabManagerNew(<<>>)]]
        ELSE [ok |-> TRUE, err |-> <<>>,
              self |-> [self EXCEPT
                  !.labels_mgr =
                      TabManagerNew(LabelsLoop(c.val.bookmarks, 1, 1, {}, <<>>, 1)),
                  !.bookmarks_mgr = TabManagerNew(c.val.bookmarks),
                  !.config = c.val]]

\* State::load_config: the Result and the State after it.
LoadConfig(self, file) ==
    LET c == ParseConfig(file)
    IN  IF ~c.ok THEN [ok |-> FALSE, err |-> c.val, self |-> self]
        ELSE [ok |-> TRUE, err |-> <<>>,
              self |-> [self EXCEPT
                  !.labels_mgr =
                      TabManagerNew(LabelsLoop(c.val.bookmarks, 1, 1, {}, <<>>, 1)),
                  !.bookmarks_mgr = TabManagerNew(c.val.bookmarks),
                  !.config = c.val]]

LoadFailedMsg(e) == <<"Failed to load config file: ">> \o e

\* main.rs 542-547 and 701-707: load_config, and handle_error on its Err.
LoadOrReport(self, file) ==
    LET r == LoadConfig(self, file)
    IN  IF r.ok THEN r.self ELSE HandleError(r.self, LoadFailedMsg(r.err))

\* ZellijPlugin::load: the configuration's exec, ignore_case and
\* autodetect_filter_mode, then the first load_config.
Load(file, e, ic, d) ==
    LoadOrReport([StateDefault EXCEPT !.exec = e, !.ignore_case = ic,
                                      !.detect_filter_mode = d], file)
----------------------------------------------------------------------------
(* ZellijPlugin::update: one operator per arm of the match on the key *)

\* char::is_ascii_digit
IsAsciiDigit(c) ==
    c \in {"0", "1", "2", "3", "4", "5", "6", "7", "8", "9"}

\* char::to_digit(10)
ToDigit(c) ==
    IF IsAsciiDigit(c)
    THEN Some(CHOOSE d \in 0..9 : DigitChar(d) = c)
    ELSE None

\* String::pop
Pop(s) == IF s = <<>> THEN s ELSE SubSeq(s, 1, Len(s) - 1)

\* BareKey::Down | BareKey::Tab
OnDown(self) ==
    CASE self.mode = "Bookmarks" -> [self EXCEPT !.bookmarks_mgr = SelectDown(@)]
      [] self.mode = "Labels" -> [self EXCEPT !.labels_mgr = SelectDown(@)]
      [] OTHER -> self

\* Mutant: Up moves the cursor the way Down does.
OnUpSelectsDown(self) ==
    CASE self.mode = "Bookmarks" -> [self EXCEPT !.bookmarks_mgr = SelectDown(@)]
      [] self.mode = "Labels" -> [self EXCEPT !.labels_mgr = SelectDown(@)]
      [] OTHER -> self

\* BareKey::Up
OnUp(self) ==
    CASE self.mode = "Bookmarks" -> [self EXCEPT !.bookmarks_mgr = SelectUp(@)]
      [] self.mode = "Labels" -> [self EXCEPT !.labels_mgr = SelectUp(@)]
      [] OTHER -> self

\* main.rs 594-596, 600-602, 611-613: the new mode, the default filter mode,
\* set_filter.
SwitchMode(self, m) ==
    SetFilter([self EXCEPT !.mode = m, !.filter_mode = DefaultFilterMode])

\* BareKey::Right
OnRight(self) == SwitchMode(self, ModeNext(self.mode))

\* BareKey::Left
OnLeft(self) == SwitchMode(self, ModePrev(self.mode))

\* Mutant: the mode is switched to even when it is the current one.
OnCtrlDigitAlwaysSwitches(self, c) ==
    LET digit == ToDigit(c)
        m == IF digit.some THEN ModeTryFrom(digit.v) ELSE None
    IN  IF m.some THEN SwitchMode(self, m.v) ELSE self

\* BareKey::Char(c) with Ctrl and c an ASCII digit
OnCtrlDigit(self, c) ==
    LET digit == ToDigit(c)
        m == IF digit.some THEN ModeTryFrom(digit.v) ELSE None
    IN  IF m.some /\ self.mode # m.v THEN SwitchMode(self, m.v) ELSE self

\* main.rs 621-627: the filter mode detected from the first character.
DetectFilterMode(self, c) ==
    IF self.detect_filter_mode /\ self.filter = <<>>
    THEN IF IsAsciiDigit(c) THEN [self EXCEPT !.filter_mode = "ID"]
         ELSE IF self.filter_mode = "ID" THEN [self EXCEPT !.filter_mode = "Name"]
         ELSE self
    ELSE self

\* Mutant: in ID mode every digit is pushed, a first 0 included.
CharAcceptedLeadingZero(self, c) ==
    IF self.filter_mode = "ID" THEN ToDigit(c).some ELSE TRUE

\* main.rs 628-647: whether the character is pushed onto the filter.
CharAccepted(self, c) ==
    IF self.filter_mode = "ID"
    THEN ToDigit(c).some /\ (self.filter # <<>> \/ ToDigit(c).v > 0)
    ELSE TRUE

\* BareKey::Char(c) with no modifiers
OnChar(self, c) ==
    IF self.mode \in {"Bookmarks", "Labels"}
    THEN LET s1 == DetectFilterMode(self, c)
         IN  IF CharAccepted(s1, c)
             THEN SetFilter([s1 EXCEPT !.filter = Append(@, c)])
             ELSE s1
    ELSE self

\* BareKey::Backspace
OnBackspace(self) ==
    IF self.mode \in {"Bookmarks", "Labels"}
    THEN SetFilter([self EXCEPT !.filter = Pop(@)])
    ELSE self

GenFailedMsg(e) == <<"Failed to generate command: ">> \o e

\* Mutant: the referring bookmark's vars are extended into the records of the
\* catalog it references, not into clones of them.
OnEnterBookmarksOverlaysCatalog(self) ==
    LET sel == GetSelected(self.bookmarks_mgr)
    IN  IF sel.some
        THEN LET r == GenCommand(self.config, self.exec, sel.v)
                 g == Some([root |-> sel.v.name, r |-> r])
                 referenced(b) == \E i \in 1..Len(sel.v.cmds) :
                                      sel.v.cmds[i] = BookmarkPrefix \o b.name
                 overlaid ==
                     [self EXCEPT !.config.bookmarks =
                         [i \in 1..Len(self.config.bookmarks) |->
                             IF referenced(self.config.bookmarks[i])
                             THEN DepBookmark(self.config.bookmarks[i], sel.v)
                             ELSE self.config.bookmarks[i]]]
             IN  IF r.ok
                 THEN [self |-> overlaid, written |-> Some(r.val), gen |-> g]
                 ELSE [self |-> HandleError(overlaid, GenFailedMsg(r.val)),
                       written |-> None, gen |-> g]
        ELSE [self |-> self, written |-> None, gen |-> None]

\* BareKey::Enter in Bookmarks mode: the State after it, what it wrote with
\* write_chars, and the gen_command call it made.
OnEnterBookmarks(self) ==
    LET sel == GetSelected(self.bookmarks_mgr)
    IN  IF sel.some
        THEN LET r == GenCommand(self.config, self.exec, sel.v)
                 g == Some([root |-> sel.v.name, r |-> r])
             IN  IF r.ok
                 THEN [self |-> self, written |-> Some(r.val), gen |-> g]
                 ELSE [self |-> HandleError(self, GenFailedMsg(r.val)),
                       written |-> None, gen |-> g]
        ELSE [self |-> self, written |-> None, gen |-> None]

\* Mutant: the filter is set and not applied.
OnEnterLabelsNoSetFilter(self) ==
    LET sel == GetSelected(self.labels_mgr)
    IN  [self EXCEPT !.filter_mode = "Label",
                     !.filter = IF sel.some THEN sel.v.name ELSE <<>>,
                     !.mode = "Bookmarks"]

\* Mutant: the filter mode stays what it was in the label list.
OnEnterLabelsKeepsFilterMode(self) ==
    LET sel == GetSelected(self.labels_mgr)
    IN  SetFilter([self EXCEPT !.filter = IF sel.some THEN sel.v.name ELSE <<>>,
                               !.mode = "Bookmarks"])

\* BareKey::Enter in Labels mode
OnEnterLabels(self) ==
    LET sel == GetSelected(self.labels_mgr)
    IN  SetFilter([self EXCEPT !.filter_mode = "Label",
                               !.filter = IF sel.some THEN sel.v.name ELSE <<>>,
                               !.mode = "Bookmarks"])

\* keybindings.reload
OnReload(self, file) ==
    ResetSelectionAll([LoadOrReport(self, file) EXCEPT !.filter = <<>>])

\* keybindings.switch_filter_label
OnSwitchFilterLabel(self) ==
    IF self.mode = "Bookmarks"
    THEN SetFilter([self EXCEPT !.filter_mode = SwitchTo(@, "Label")])
    ELSE self

\* keybindings.switch_filter_id
OnSwitchFilterId(self) ==
    IF self.mode \in {"Bookmarks", "Labels"}
    THEN SetFilter([self EXCEPT !.filter_mode = SwitchTo(@, "ID")])
    ELSE self

\* State::render_errors: the pending error message is taken (shown once).
OnRenderErrors(self) == [self EXCEPT !.error_message = None]
----------------------------------------------------------------------------
(* The inputs of the interactive specification *)

\* The longest filter text the model types.
MaxFilterLen == 2

\* The characters the model types.
TypedChars == {"d", "e", "D", "0", "1"}

\* The digits the model presses with Ctrl.
CtrlDigits == {"1", "2", "3", "4"}

\* A bookmark as it stands in the file.
RawBookmark(id, name, cmds, labels, vs, ex) ==
    [id |-> id, name |-> name, cmds |-> cmds, labels |-> labels, vars |-> vs,
     exec |-> ex]

XKey == <<"x">>

LitEchoX == <<" ", "echo", " ", "{{x}}">>

BookmarkRef(name) == BookmarkPrefix \o name

CmdRef(key) == CmdPrefix \o key

UIFileA ==
    YamlFile([k \in {XKey} |-> <<"g">>], EmptyMap,
        << RawBookmark(0, <<"d", "e">>, <<LitEchoX>>, << <<"d">> >>,
                       EmptyMap, None),
           RawBookmark(0, <<"D">>, <<BookmarkRef(<<"d", "e">>)>>,
                       << <<"D">>, <<"d">> >>, EmptyMap, Some(TRUE)),
           RawBookmark(0, <<"e", "1">>, <<CmdRef(<<"q">>)>>, <<>>,
                       EmptyMap, None) >>)

UIFileB ==
    YamlFile(EmptyMap, EmptyMap,
        << RawBookmark(7, <<"e", "d">>, <<LitEchoX>>, << <<"e">> >>,
                       EmptyMap, None),
           RawBookmark(7, <<"d">>, <<>>, << <<"e">>, <<"d", "e">> >>,
                       EmptyMap, None) >>)

UIFileDup ==
    YamlFile(EmptyMap, EmptyMap,
        << RawBookmark(0, <<"d", "e">>, <<LitEchoX>>, <<>>, EmptyMap, None),
           RawBookmark(0, <<"D">>, <<>>, <<>>, EmptyMap, None),
           RawBookmark(0, <<"d", "e">>, <<>>, <<>>, EmptyMap, None) >>)

\* What the configuration file may hold when it is read.
UIFiles == {UIFileA, UIFileB, UIFileDup, UnreadableFile}

\* What it may hold when it is read again.
ReloadFiles == UIFiles \cup {GarbageFile}

----------------------------------------------------------------------------
(* The inputs of the resolution specification: configuration files whose     *)
(* bookmarks reference each other, macros and variables.                     *)

\* The most command tokens a reference graph holds, over all its bookmarks; a
\* chain holds one fewer.
MaxTokens == 4

NameA == <<"A">>

NameB == <<"B">>

NameC == <<"C">>

NameD == <<"D">>

\* A name no bookmark has, and a key no macro has.
NameZ == <<"Z">>

KeyQ == <<"q">>

\* The macro every file of this specification defines.
KeyM == <<"m">>

MacroM == <<"run", " ", "{{x}}", " ">>

LitBad == <<"echo", " ", Malformed>>

\* The value of x in the global vars, and in the vars of a bookmark that has it.
GlobalX == <<"g", "&">>

OwnX(name) == name \o <<"<">>

\* The ways to give bookmarks 1..k command lists of at most n tokens in all:
\* the length of each list.
LenVectors(k, n) ==
    {lens \in [1..k -> 0..n] : lens[1] + (IF k > 1 THEN lens[2] ELSE 0)
                                + (IF k > 2 THEN lens[3] ELSE 0)
                                + (IF k > 3 THEN lens[4] ELSE 0) <= n}

RECURSIVE SumTo(_, _)
SumTo(lens, i) == IF i = 0 THEN 0 ELSE lens[i] + SumTo(lens, i - 1)

\* The command lists of lengths lens whose tokens, read bookmark after
\* bookmark, are tokens[i][flat[1]], tokens[i][flat[2]], ...
CmdTable(lens, flat, tokens) ==
    [i \in DOMAIN lens |->
        [j \in 1..lens[i] |-> tokens[i][flat[SumTo(lens, i - 1) + j]]]]

\* The file with bookmarks names[1..k], bookmark i having the commands
\* table[i], the variable x iff has_x[i], and exec execs[i]; the global vars
\* have x iff global_x.
ResolveFile(names, table, global_x, has_x, execs) ==
    YamlFile(IF global_x THEN [k \in {XKey} |-> GlobalX] ELSE EmptyMap,
             [k \in {KeyM} |-> MacroM],
             [i \in 1..Len(names) |->
                 RawBookmark(0, names[i], table[i], <<>>,
                             IF has_x[i] THEN [k \in {XKey} |-> OwnX(names[i])]
                             ELSE EmptyMap,
                             execs[i])])

----------------------------------------------------------------------------
(* The state machine *)

\* The State after a callback (update on a key, or render), what the callback
\* wrote and the gen_command call it made (None for all but Enter on a bookmark).
Update(s, w, g) ==
    /\ mode' = s.mode
    /\ exec' = s.exec
    /\ ignore_case' = s.ignore_case
    /\ detect_filter_mode' = s.detect_filter_mode
    /\ filter_mode' = s.filter_mode
    /\ filter' = s.filter
    /\ bookmarks_mgr' = s.bookmarks_mgr
    /\ labels_mgr' = s.labels_mgr
    /\ config' = s.config
    /\ error_message' = s.error_message
    /\ written' = w
    /\ gen' = g
    /\ UNCHANGED call

InitState(file, e, ic, d) ==
    LET s == Load(file, e, ic, d)
    IN  /\ mode = s.mode
        /\ exec = s.exec
        /\ ignore_case = s.ignore_case
        /\ detect_filter_mode = s.detect_filter_mode
        /\ filter_mode = s.filter_mode
        /\ filter = s.filter
        /\ bookmarks_mgr = s.bookmarks_mgr
        /\ labels_mgr = s.labels_mgr
        /\ config = s.config
        /\ error_message = s.error_message
        /\ written = None
        /\ gen = None

InitFrom(file, e, ic, d) == InitState(file, e, ic, d) /\ call = None

KeyDown == Update(OnDown(Self), None, None)

KeyUp == Update(OnUp(Self), None, None)

KeyRight == Update(OnRight(Self), None, None)

KeyLeft == Update(OnLeft(Self), None, None)

KeyCtrlDigit(c) == Update(OnCtrlDigit(Self, c), None, None)

KeyChar(c) ==
    /\ Len(filter) < MaxFilterLen
    /\ Update(OnChar(Self, c), None, None)

KeyBackspace == Update(OnBackspace(Self), None, None)

KeyEnterBookmarks ==
    /\ mode = "Bookmarks"
    /\ LET r == OnEnterBookmarks(Self) IN Update(r.self, r.written, r.gen)

KeyEnterLabels ==
    /\ mode = "Labels"
    /\ Update(OnEnterLabels(Self), None, None)

KeyReload(file) == Update(OnReload(Self, file), None, None)

KeySwitchFilterLabel == Update(OnSwitchFilterLabel(Self), None, None)

KeySwitchFilterId == Update(OnSwitchFilterId(Self), None, None)

\* ZellijPlugin::render, as far as it changes the State: render_errors takes
\* the pending error message.
Render ==
    /\ error_message.some
    /\ Update(OnRenderErrors(Self), None, None)

Init ==
    \E file \in UIFiles, ic \in BOOLEAN, d \in BOOLEAN :
        InitFrom(file, FALSE, ic, d)

Next ==
    \/ KeyDown
    \/ KeyUp
    \/ KeyRight
    \/ KeyLeft
    \/ \E c \in CtrlDigits : KeyCtrlDigit(c)
    \/ \E c \in TypedChars : KeyChar(c)
    \/ KeyBackspace
    \/ KeyEnterBookmarks
    \/ KeyEnterLabels
    \/ \E file \in ReloadFiles : KeyReload(file)
    \/ KeySwitchFilterLabel
    \/ KeySwitchFilterId
    \/ Render

Spec == Init /\ [][Next]_vars

\* The label specification: the plugin loads a file one of whose bookmarks
\* lists the empty string among its labels, and the keys of the label list are
\* pressed.
LabelFileE ==
    YamlFile(EmptyMap, EmptyMap,
        << RawBookmark(0, <<"d", "e">>, <<LitEchoX>>, << <<"d">>, <<>> >>,
                       EmptyMap, None),
           RawBookmark(0, <<"D">>, <<>>, << <<"D">> >>, EmptyMap, None),
           RawBookmark(0, <<"e", "1">>, <<>>, <<>>, EmptyMap, None) >>)

InitLabels ==
    \E ic \in BOOLEAN, d \in BOOLEAN : InitFrom(LabelFileE, FALSE, ic, d)

NextLabels ==
    \/ KeyDown
    \/ KeyUp
    \/ KeyRight
    \/ KeyLeft
    \/ \E c \in TypedChars : KeyChar(c)
    \/ KeyBackspace
    \/ KeyEnterLabels
    \/ \E file \in {LabelFileE, UnreadableFile} : KeyReload(file)
    \/ KeySwitchFilterId
    \/ Render

SpecLabels == InitLabels /\ [][NextLabels]_vars

\* The resolution specification: the plugin loads one of the files below and
\* Enter is pressed on the first bookmark.
GraphNames == <<NameA, NameB, NameC, NameD>>

\* Reference graphs: any bookmark may reference any bookmark, itself included.
GraphTokens ==
    [i \in 1..4 |-> <<BookmarkRef(NameA), BookmarkRef(NameB),
                      BookmarkRef(NameC), BookmarkRef(NameD)>>]

InitGraph ==
    \E lens \in LenVectors(4, MaxTokens) :
        \E flat \in [1..SumTo(lens, 4) -> 1..4] :
            InitFrom(ResolveFile(GraphNames, CmdTable(lens, flat, GraphTokens),
                                 TRUE, <<TRUE, FALSE, FALSE, FALSE>>,
                                 <<None, None, None, None>>),
                     FALSE, TRUE, TRUE)

ChainNames == <<NameA, NameB, NameC>>

\* Chains: a bookmark may reference the next one (the last one, the first).
ChainTokens ==
    <<<<LitEchoX, CmdRef(KeyM), BookmarkRef(NameB)>>,
      <<LitEchoX, CmdRef(KeyM), BookmarkRef(NameC)>>,
      <<LitEchoX, CmdRef(KeyM), BookmarkRef(NameA)>>>>

\* Chains with every choice of who defines x.
InitChainVars ==
    \E lens \in LenVectors(3, MaxTokens - 1) :
        \E flat \in [1..SumTo(lens, 3) -> 1..3] :
            \E gx \in BOOLEAN, hx \in [1..3 -> BOOLEAN] :
                InitFrom(ResolveFile(ChainNames,
                                     CmdTable(lens, flat, ChainTokens),
                                     gx, hx, <<None, None, None>>),
                         FALSE, TRUE, TRUE)

OptionBool == {None, Some(TRUE), Some(FALSE)}

\* Chains with every choice of exec: the plugin's, the root's, the others'.
InitChainExec ==
    \E lens \in LenVectors(3, MaxTokens - 1) :
        \E flat \in [1..SumTo(lens, 3) -> 1..3] :
            \E e \in BOOLEAN, e1 \in OptionBool, e2 \in OptionBool :
                InitFrom(ResolveFile(ChainNames,
                                     CmdTable(lens, flat, ChainTokens),
                                     TRUE, <<FALSE, FALSE, FALSE>>,
                                     <<e1, e2, e2>>),
                         e, TRUE, TRUE)

PairNames == <<NameA, NameB>>

\* Two bookmarks with tokens that fail: a missing bookmark, a missing macro, a
\* template that does not parse.
FailingTokens ==
    [i \in 1..2 |-> <<BookmarkRef(NameZ), CmdRef(KeyQ), LitBad, LitEchoX,
                      BookmarkRef(NameB)>>]

InitFailing ==
    \E lens \in LenVectors(2, MaxTokens - 1) :
        \E flat \in [1..SumTo(lens, 2) -> 1..5] :
            InitFrom(ResolveFile(PairNames, CmdTable(lens, flat, FailingTokens),
                                 TRUE, <<FALSE, FALSE>>, <<None, None>>),
                     FALSE, TRUE, TRUE)

InitResolve == InitGraph \/ InitChainVars \/ InitChainExec \/ InitFailing

NextResolve ==
    \/ KeyEnterBookmarks
    \/ Render

SpecResolve == InitResolve /\ [][NextResolve]_vars

\* The scope specification: the plugin loads a chain with any choice of who
\* defines x, the cursor moves over the bookmarks and Enter is pressed on any of
\* them, one after the other.
NextScopes ==
    \/ KeyDown
    \/ KeyUp
    \/ KeyEnterBookmarks
    \/ Render

SpecScopes == InitChainVars /\ [][NextScopes]_vars
----------------------------------------------------------------------------------------------------------------------------------------
(* The specification of the functions: the plugin is loaded, one function of *)
(* it is about to be called on arguments drawn from the sets below, and the  *)
(* step is the call. The plugin State stays as load left it.                 *)

\* The longest filter text passed to a filter.
MaxTextLen == 3

\* The characters of the filter texts.
FilterChars == {"d", "e", "v", "D", "1"}

FilterTexts == UNION {[1..n -> FilterChars] : n \in 0..MaxTextLen}

FilterModes == {"Name", "ID", "Label"}

\* Bookmarks a filter is asked about.
FilterBookmarks ==
    { RawBookmark(1, <<"d", "e", "v">>, <<>>, << <<"d", "e", "v">> >>,
                  EmptyMap, None),
      RawBookmark(11, <<"D", "e">>, <<>>, << <<"d">>, <<"D", "E">> >>,
                  EmptyMap, None),
      RawBookmark(2, <<"v">>, <<>>, <<>>, EmptyMap, None),
      RawBookmark(21, <<"e", "D", "1">>, <<>>, << <<"1">>, <<"e", "d">> >>,
                  EmptyMap, None) }

\* Labels a filter is asked about.
FilterLabels ==
    { [id |-> 1, name |-> <<"d", "e", "v">>],
      [id |-> 11, name |-> <<"D">>],
      [id |-> 2, name |-> <<"e", "V", "1">>],
      [id |-> 21, name |-> <<"d", "e">>] }

\* The call of fn on args that has not been made yet.
Pending(fn, args) ==
    /\ InitState(UIFileA, FALSE, TRUE, TRUE)
    /\ call = Some([fn |-> fn, args |-> args, r |-> None])

\* fn is about to be called.
About(fn) == call.some /\ call.v.fn = fn /\ ~call.v.r.some

\* The call returns r and changes nothing of the State.
Returns(r) ==
    /\ call' = Some([call.v EXCEPT !.r = Some(r)])
    /\ UNCHANGED <<mode, exec, ignore_case, detect_filter_mode, filter_mode,
                   filter, bookmarks_mgr, labels_mgr, config, error_message,
                   written, gen>>

InitKeepBookmark ==
    \E m \in FilterModes, text \in FilterTexts, ic \in BOOLEAN,
       b \in FilterBookmarks :
        Pending("BookmarkFilter::keep",
                [f |-> BookmarkFilterNew(m, text, ic), t |-> b])

\* BookmarkFilter::new(m, text, ic).keep(b)
KeepBookmark ==
    /\ About("BookmarkFilter::keep")
    /\ Returns(Keep(call.v.args.f, call.v.args.t))

InitKeepLabel ==
    \E m \in FilterModes, text \in FilterTexts, ic \in BOOLEAN,
       l \in FilterLabels :
        Pending("LabelFilter::keep",
                [f |-> LabelFilterNew(m, text, ic), t |-> l])

\* LabelFilter::new(m, text, ic).keep(l)
KeepLabel ==
    /\ About("LabelFilter::keep")
    /\ Returns(Keep(call.v.args.f, call.v.args.t))

InitSwitchTo ==
    \E m \in FilterModes, x \in FilterModes :
        Pending("Mode::switch_to", [self |-> m, mode |-> x, nth |-> 1])

\* self.switch_to(mode)
SwitchToCall ==
    /\ About("Mode::switch_to")
    /\ Returns(SwitchTo(call.v.args.self, call.v.args.mode))

\* The mode a first switch_to returned is switched to the same mode again.
SwitchToAgain ==
    /\ call.some /\ call.v.fn = "Mode::switch_to" /\ call.v.r.some
    /\ call.v.args.nth = 1
    /\ call' = Some([fn |-> "Mode::switch_to",
                     args |-> [self |-> call.v.r.v, mode |-> call.v.args.mode,
                               nth |-> 2],
                     r |-> Some(SwitchTo(call.v.r.v, call.v.args.mode))])
    /\ UNCHANGED <<mode, exec, ignore_case, detect_filter_mode, filter_mode,
                   filter, bookmarks_mgr, labels_mgr, config, error_message,
                   written, gen>>

\* The tallest terminal and the longest view the menu is drawn for.
MaxRows == 9

MaxCount == 10

\* The cursor is an index of the view, or 0 on an empty view.
InitRenderMainMenu ==
    \E rows \in 0..MaxRows, cols \in {12, 80}, count \in 0..MaxCount :
        \E selected \in 0..(IF count = 0 THEN 0 ELSE count - 1) :
            Pending("render_main_menu",
                    [rows |-> rows, cols |-> cols, selected |-> selected,
                     count |-> count])

\* render_main_menu(rows, cols, selected, count, ...)
RenderMainMenuCall ==
    /\ About("render_main_menu")
    /\ Returns(RenderMainMenu(call.v.args.rows, call.v.args.cols,
                              call.v.args.selected, call.v.args.count))

\* The longest bookmark sequence deserialized.
MaxInput == 4

InitDeserializeBookmarks ==
    \E n \in 0..MaxInput :
        \E names \in [1..n -> {NameA, NameB, NameC}] :
            Pending("deserialize_bookmarks",
                    [bookmarks |->
                        [i \in 1..n |->
                            RawBookmark(0, names[i], <<LitEchoX>>, <<names[i]>>,
                                        EmptyMap, None)]])

\* deserialize_bookmarks on the sequence serde read
DeserializeBookmarksCall ==
    /\ About("deserialize_bookmarks")
    /\ Returns(DeserializeBookmarks(call.v.args.bookmarks))

\* The most applications of next and prev made one after the other.
MaxHops == 3

UIModes == {"Bookmarks", "Labels", "Usage"}

\* before[i] is the mode ops[i] was called on; self is the mode the call at
\* hand is made on.
InitModeNav ==
    \E m \in UIModes, op \in {"Mode::next", "Mode::prev"} :
        Pending(op, [self |-> m, before |-> <<>>, ops |-> <<>>])

\* self.next()
ModeNextCall ==
    /\ About("Mode::next")
    /\ Returns(ModeNext(call.v.args.self))

\* self.prev()
ModePrevCall ==
    /\ About("Mode::prev")
    /\ Returns(ModePrev(call.v.args.self))

\* next or prev is called on the mode the last call returned.
ModeNavAgain ==
    /\ call.some /\ call.v.fn \in {"Mode::next", "Mode::prev"} /\ call.v.r.some
    /\ Len(call.v.args.ops) + 1 < MaxHops
    /\ \E op \in {"Mode::next", "Mode::prev"} :
          call' = Some([fn |-> op,
                        args |-> [self |-> call.v.r.v,
                                  before |-> Append(call.v.args.before,
                                                    call.v.args.self),
                                  ops |-> Append(call.v.args.ops, call.v.fn)],
                        r |-> Some(IF op = "Mode::next"
                                   THEN ModeNext(call.v.r.v)
                                   ELSE ModePrev(call.v.r.v))])
    /\ UNCHANGED <<mode, exec, ignore_case, detect_filter_mode, filter_mode,
                   filter, bookmarks_mgr, labels_mgr, config, error_message,
                   written, gen>>

InitCalls ==
    \/ InitKeepBookmark
    \/ InitKeepLabel
    \/ InitSwitchTo
    \/ InitRenderMainMenu
    \/ InitDeserializeBookmarks
    \/ InitModeNav

NextCalls ==
    \/ KeepBookmark
    \/ KeepLabel
    \/ SwitchToCall
    \/ SwitchToAgain
    \/ RenderMainMenuCall
    \/ DeserializeBookmarksCall
    \/ ModeNextCall
    \/ ModePrevCall
    \/ ModeNavAgain

SpecCalls == InitCalls /\ [][NextCalls]_vars
----------------------------------------------------------------------------
(* Properties of command resolution, checked under SpecResolve *)

\* The result of the gen_command call of the last callback, its history, and the
\* bookmark it was called with.
GenRes == gen.v.r

GenHist == gen.v.r.h

GenRoot == FindBookmark(config, gen.v.root).v

\* The bookmark a token references, if it is a reference to one there is.
RefOf(cmd) ==
    LET n == StripPrefix(cmd, BookmarkPrefix)
    IN  IF n.some THEN FindBookmark(config, n.v) ELSE None

\* The call failed with this message: nothing was written, and the message is
\* what the plugin reports.
FailedWith(msg) ==
    /\ ~GenRes.ok
    /\ GenRes.val = msg
    /\ written = None
    /\ error_message = Some(GenFailedMsg(msg))

\* C1: a call of gen_template_command for a name already called in the same
\* resolution is the last call of that resolution, which fails with the
\* circular dependency error naming it and writes nothing; a root whose first
\* token references itself, or a bookmark whose first token references the
\* root, is such a case.
C1_CycleDetected ==
    gen.some =>
        LET tr == GenHist.trace
        IN  /\ \A i, j \in 1..Len(tr) :
                   (i < j /\ tr[i] = tr[j]) =>
                       j = Len(tr) /\ FailedWith(CircularMsg(tr[j]))
            /\ (GenRoot.cmds # <<>> /\ RefOf(GenRoot.cmds[1]).some) =>
                   LET b == RefOf(GenRoot.cmds[1]).v
                   IN  /\ b.name = GenRoot.name =>
                              FailedWith(CircularMsg(GenRoot.name))
                       /\ (b.name # GenRoot.name /\ b.cmds # <<>>
                             /\ b.cmds[1] = BookmarkRef(GenRoot.name)) =>
                              FailedWith(CircularMsg(GenRoot.name))

\* C1 witness: A references B and B references A; the second call for A failed.
C1_Witness ==
    /\ gen.some
    /\ GenHist.trace = <<NameA, NameB, NameA>>
    /\ GenHist.revisit = Some([name |-> NameA, on_path |-> TRUE])
    /\ FailedWith(CircularMsg(NameA))

\* The root references n1 then n2, both reference n3 and nothing else, n3 has
\* no commands: no bookmark is its own ancestor.
IsDiamond(root, n1, n2, n3) ==
    /\ Cardinality({root.name, n1.name, n2.name, n3.name}) = 4
    /\ root.cmds = <<BookmarkRef(n1.name), BookmarkRef(n2.name)>>
    /\ n1.cmds = <<BookmarkRef(n3.name)>>
    /\ n2.cmds = <<BookmarkRef(n3.name)>>
    /\ n3.cmds = <<>>

BookmarksOf(cfg) == {cfg.bookmarks[i] : i \in 1..Len(cfg.bookmarks)}

\* C2: the visited set is shared by the whole call: a resolution that succeeds
\* has called gen_template_command at most once per name; in a diamond (root
\* to n1 and n2, both to n3) the call fails with the circular dependency error
\* naming n3 at the second reference, and a root that references the same
\* bookmark twice fails at the second reference.
C2_RevisitAnywhere ==
    gen.some =>
        LET tr == GenHist.trace
        IN  /\ GenRes.ok => \A i, j \in 1..Len(tr) : tr[i] = tr[j] => i = j
            /\ \A n1, n2, n3 \in BookmarksOf(config) :
                   IsDiamond(GenRoot, n1, n2, n3) =>
                       /\ FailedWith(CircularMsg(n3.name))
                       /\ tr = <<GenRoot.name, n1.name, n3.name, n2.name,
                                 n3.name>>
            /\ \A n \in BookmarksOf(config) :
                   (/\ n.name # GenRoot.name
                    /\ n.cmds = <<>>
                    /\ GenRoot.cmds = <<BookmarkRef(n.name), BookmarkRef(n.name)>>)
                   => FailedWith(CircularMsg(n.name))

\* C2 witness: the diamond was resolved, and the name found in the visited set
\* was not an ancestor of the call that found it.
C2_Witness ==
    /\ gen.some
    /\ \E n1, n2, n3 \in BookmarksOf(config) : IsDiamond(GenRoot, n1, n2, n3)
    /\ GenHist.revisit.some
    /\ ~GenHist.revisit.v.on_path
    /\ ~GenRes.ok

\* C3: every resolution ends, with a string that is written or with one of the
\* errors of the code; no name is expanded twice (the calls are as many as the
\* names inserted, plus the one call that found its name visited), and the
\* recursion is never deeper than the catalog has bookmarks (the root call
\* being level 0).
C3_Terminates ==
    gen.some =>
        LET h == GenHist
        IN  /\ GenRes.val # StackOverflowMsg
            /\ h.depth <= Len(config.bookmarks)
            /\ Cardinality(h.processed) <= Len(config.bookmarks)
            /\ Len(h.trace) =
                   Cardinality(h.processed) + (IF h.revisit.some THEN 1 ELSE 0)
            /\ IF GenRes.ok THEN written = Some(GenRes.val)
               ELSE FailedWith(GenRes.val)

\* C3 witness: a cycle through every bookmark of the catalog, where the
\* recursion is as deep as the catalog is large.
C3_Witness ==
    /\ gen.some
    /\ Len(config.bookmarks) = 4
    /\ GenHist.depth = Len(config.bookmarks)
    /\ ~GenRes.ok

\* What the properties below expect of a resolution, written from the rules of
\* the resolution and not with the operators that model the code.

\* The value of x a bookmark declares, and the one the global vars declare.
OwnXOf(b) == IF XKey \in DOMAIN b.vars THEN Some(b.vars[XKey]) ELSE None

GlobalXOf == IF XKey \in DOMAIN config.vars THEN Some(config.vars[XKey]) ELSE None

\* upper overlaid on lower: upper wins where both are defined.
Overlay(upper, lower) == IF upper.some THEN upper ELSE lower

\* The values of x of the files, as a rendered template shows them.
ShownValue(v) == IF v = GlobalX THEN <<"g", "&amp;">> ELSE <<v[1], "&lt;">>

\* " echo {{x}}" rendered and trimmed, x having the value val or none.
EchoText(val) ==
    IF val.some THEN <<"echo", " ">> \o ShownValue(val.v) ELSE <<"echo">>

\* The macro m, "run {{x}} ", rendered and trimmed.
RunText(val) ==
    IF val.some THEN <<"run", " ">> \o ShownValue(val.v) ELSE <<"run">>

LeafText(cmd, val) == IF cmd = CmdRef(KeyM) THEN RunText(val) ELSE EchoText(val)

RECURSIVE ExpectedOf(_, _)
\* The string of bookmark b when the bookmarks referring to it give x the value
\* inherited (or none), in a catalog of literals, macro m and references that
\* revisit nothing.
ExpectedOf(b, inherited) ==
    LET effective == Overlay(inherited, OwnXOf(b))
        shown == Overlay(effective, GlobalXOf)
    IN  Join([i \in 1..Len(b.cmds) |->
                 IF RefOf(b.cmds[i]).some
                 THEN ExpectedOf(RefOf(b.cmds[i]).v, effective)
                 ELSE LeafText(b.cmds[i], shown)],
             CmdSeparator)

\* The auto-submit flag of the resolved root, and the resolved string without
\* the newline appended for it.
RootSubmits == IF GenRoot.exec.some THEN GenRoot.exec.v ELSE exec

GenBody ==
    IF RootSubmits
    THEN SubSeq(GenRes.val, 1, Len(GenRes.val) - 1)
    ELSE GenRes.val

IsChainFile == Len(config.bookmarks) = 3

HasRef(b) == \E i \in 1..Len(b.cmds) : RefOf(b.cmds[i]).some

\* C4: a reference to bookmark N is resolved with N's vars overlaid by the
\* referring bookmark's (the referrer wins, N's own value wins over the global
\* one), transitively, and N's whole joined string is one element of the
\* referrer's join at the place of the token; so A = [bookmark::B],
\* B = [" echo {{x}}"] gives "echo" and the value of x of A, else of B, else the
\* global one.
C4_ReferenceExpansion ==
    (gen.some /\ IsChainFile /\ GenRes.ok /\ HasRef(GenRoot)) =>
        /\ GenBody = ExpectedOf(GenRoot, None)
        /\ (/\ GenRoot.cmds = <<BookmarkRef(NameB)>>
            /\ RefOf(GenRoot.cmds[1]).v.cmds = <<LitEchoX>>) =>
               GenBody = EchoText(Overlay(OwnXOf(GenRoot),
                                  Overlay(OwnXOf(RefOf(GenRoot.cmds[1]).v),
                                          GlobalXOf)))

\* C4 witness: A references B, B references C, C is " echo {{x}}", all three
\* and the global vars define x: the string shows A's value.
C4_Witness ==
    /\ gen.some
    /\ IsChainFile
    /\ GenRes.ok
    /\ GenRoot.cmds = <<BookmarkRef(NameB)>>
    /\ config.bookmarks[2].cmds = <<BookmarkRef(NameC)>>
    /\ config.bookmarks[3].cmds = <<LitEchoX>>
    /\ \A i \in 1..3 : OwnXOf(config.bookmarks[i]).some
    /\ GlobalXOf.some
    /\ written = Some(<<"echo", " ", "A", "&lt;">>)

\* C5: the literal and macro tokens of a bookmark are rendered with the global
\* vars overlaid by the bookmark's own: x shows the bookmark's value if it
\* declares one, else the global value, else nothing.
C5_MergedVars ==
    (gen.some /\ IsChainFile /\ ~HasRef(GenRoot)) =>
        /\ GenRes.ok
        /\ GenBody =
               Join([i \in 1..Len(GenRoot.cmds) |->
                        LeafText(GenRoot.cmds[i],
                                 Overlay(OwnXOf(GenRoot), GlobalXOf))],
                    CmdSeparator)

\* C5 witness: a literal and a macro, x declared by the bookmark and globally.
C5_Witness ==
    /\ gen.some
    /\ IsChainFile
    /\ GenRoot.cmds = <<LitEchoX, CmdRef(KeyM)>>
    /\ OwnXOf(GenRoot).some
    /\ GlobalXOf.some
    /\ written = Some(<<"echo", " ", "A", "&lt;">> \o CmdSeparator
                       \o <<"run", " ", "A", "&lt;">>)

IsPairFile == Len(config.bookmarks) = 2

\* The error of a token that fails by itself: a reference to a bookmark or a
\* macro that is not there, a template that does not parse.
TokenFailure(cmd) ==
    LET n == StripPrefix(cmd, BookmarkPrefix)
        k == StripPrefix(cmd, CmdPrefix)
    IN  IF n.some
        THEN IF \E b \in BookmarksOf(config) : b.name = n.v THEN None
             ELSE Some(<<"Bookmark '">> \o n.v \o <<"' not found">>)
        ELSE IF k.some
        THEN IF k.v \in DOMAIN config.cmds THEN None
             ELSE Some(<<"Command key '">> \o k.v \o <<"' not found in cmds">>)
        ELSE IF \E i \in 1..Len(cmd) : cmd[i] = Malformed
        THEN Some(<<"Template rendering error: ", "<handlebars error>">>)
        ELSE None

RECURSIVE Flatten(_)
Flatten(ss) == IF ss = <<>> THEN <<>> ELSE Head(ss) \o Flatten(Tail(ss))

\* The failures of the tokens of bookmarks A and B of a pair file in the order
\* a depth-first resolution of A meets them (None for a token that does not
\* fail): a reference to B stands for B's tokens, inside which, and after which,
\* a reference to B fails as a revisit.
PairFailures ==
    LET a == config.bookmarks[1]
        b == config.bookmarks[2]
        inB == [j \in 1..Len(b.cmds) |->
                   IF b.cmds[j] = BookmarkRef(NameB)
                   THEN Some(CircularMsg(NameB))
                   ELSE TokenFailure(b.cmds[j])]
    IN  Flatten([i \in 1..Len(a.cmds) |->
                    IF a.cmds[i] = BookmarkRef(NameB)
                    THEN IF \E j \in 1..(i - 1) : a.cmds[j] = BookmarkRef(NameB)
                         THEN <<Some(CircularMsg(NameB))>>
                         ELSE inB
                    ELSE <<TokenFailure(a.cmds[i])>>])

\* C6: a reference to a bookmark or to a macro that is not there fails the
\* resolution with the error naming it; the error reported is that of the first
\* failing token in depth-first order, nothing is written, and without a
\* failing token the resolution succeeds.
C6_MissingReference ==
    (gen.some /\ IsPairFile /\ GenRoot.name = NameA) =>
        LET fs == PairFailures
            failing == {i \in 1..Len(fs) : fs[i].some}
        IN  IF failing = {} THEN GenRes.ok /\ written = Some(GenRes.val)
            ELSE FailedWith(fs[CHOOSE i \in failing :
                                   \A j \in failing : i <= j].v)

\* C6 witness: A = [bookmark::B, bookmark::Z], B = [cmd::q]: the missing macro
\* inside B is met before the missing bookmark Z.
C6_Witness ==
    /\ gen.some
    /\ IsPairFile
    /\ GenRoot.cmds = <<BookmarkRef(NameB), BookmarkRef(NameZ)>>
    /\ config.bookmarks[2].cmds = <<CmdRef(KeyQ)>>
    /\ FailedWith(<<"Command key '", "q", "' not found in cmds">>)

\* C7: the resolved string ends with one appended newline iff the root's exec,
\* or the plugin's when the root has none, is true: the string before the
\* append never ends with a newline, and the exec of the other bookmarks plays
\* no part.
C7_AutoSubmit ==
    (gen.some /\ GenRes.ok) =>
        LET val == GenRes.val
            ends(s) == s # <<>> /\ s[Len(s)] = "\n"
        IN  /\ ends(val) <=> RootSubmits
            /\ ends(val) => ~ends(SubSeq(val, 1, Len(val) - 1))
            /\ written = Some(val)

\* C7 witness: the root has exec false, the plugin and the bookmark the root
\* references have exec true, and the string does not end with a newline.
C7_Witness ==
    /\ gen.some
    /\ GenRes.ok
    /\ exec
    /\ GenRoot.exec = Some(FALSE)
    /\ GenRoot.cmds = <<BookmarkRef(NameB)>>
    /\ RefOf(GenRoot.cmds[1]).v.exec = Some(TRUE)
    /\ RefOf(GenRoot.cmds[1]).v.cmds = <<LitEchoX>>
    /\ written = Some(<<"echo", " ", "g", "&amp;">>)

----------------------------------------------------------------------------
(* Properties of the lists, checked under Spec *)

\* C8: whenever the filtered view of a list is not empty, its cursor is an
\* index of the view (counted from 0), after any sequence of key events and
\* reloads.
C8_CursorInRange ==
    /\ Len(bookmarks_mgr.filtered) > 0 =>
           bookmarks_mgr.selected \in 0..(Len(bookmarks_mgr.filtered) - 1)
    /\ Len(labels_mgr.filtered) > 0 =>
           labels_mgr.selected \in 0..(Len(labels_mgr.filtered) - 1)

\* C8 witness: the cursor is on the last entry of a view that a filter has
\* narrowed to more than one entry.
C8_Witness ==
    /\ filter # <<>>
    /\ Len(bookmarks_mgr.filtered) < Len(bookmarks_mgr.items)
    /\ bookmarks_mgr.selected > 0
    /\ bookmarks_mgr.selected = Len(bookmarks_mgr.filtered) - 1

\* The key events that apply the filter again: a typed character that is pushed
\* onto the filter text, Backspace, the two filter-mode toggles where they are
\* bound, a change of the UI mode, Enter on the label list.
ReFilter ==
    \/ \E c \in TypedChars : filter' = Append(filter, c) /\ KeyChar(c)
    \/ mode \in {"Bookmarks", "Labels"} /\ mode' = mode
          /\ filter_mode' = filter_mode /\ filter' = Pop(filter)
          /\ KeyBackspace
    \/ mode = "Bookmarks" /\ mode' = mode /\ filter' = filter
          /\ filter_mode' # filter_mode /\ KeySwitchFilterLabel
    \/ mode \in {"Bookmarks", "Labels"} /\ mode' = mode /\ filter' = filter
          /\ filter_mode' # filter_mode /\ KeySwitchFilterId
    \/ mode' # mode /\ KeyRight
    \/ mode' # mode /\ KeyLeft
    \/ mode' # mode /\ \E c \in CtrlDigits : KeyCtrlDigit(c)
    \/ mode = "Labels" /\ mode' = "Bookmarks" /\ KeyEnterLabels

\* The cursor of the list of the current UI mode is 0.
ActiveCursorZero ==
    /\ mode = "Bookmarks" => bookmarks_mgr.selected = 0
    /\ mode = "Labels" => labels_mgr.selected = 0

\* C9: after a key event that applies the filter again, the cursor of the list
\* of the UI mode the event leaves the plugin in is 0, whatever it was.
C9_FilterResetsCursor == [][ReFilter => ActiveCursorZero']_vars

\* C9 witness: Enter on the second label of the label list has filtered the
\* bookmarks by it, and the bookmark cursor is 0.
C9_Witness ==
    /\ mode = "Bookmarks"
    /\ filter_mode = "Label"
    /\ labels_mgr.selected = 1
    /\ Len(labels_mgr.filtered) > 1
    /\ filter = labels_mgr.filtered[2].name
    /\ bookmarks_mgr.selected = 0
    /\ Len(bookmarks_mgr.filtered) > 0

\* The entities of items[i..] that filter f keeps, in the order of items.
RECURSIVE KeptFrom(_, _, _)
KeptFrom(items, i, f) ==
    IF i > Len(items) THEN <<>>
    ELSE (IF Keep(f, items[i]) THEN <<items[i]>> ELSE <<>>)
         \o KeptFrom(items, i + 1, f)

\* The view of mgr is the entities of its catalog that filter f keeps, in
\* catalog order (so its length is their number).
IsExactView(mgr, f) ==
    /\ mgr.filtered = KeptFrom(mgr.items, 1, f)
    /\ MgrLen(mgr) = Len(KeptFrom(mgr.items, 1, f))

\* The view of the list of the current UI mode is exact for the filter made of
\* the current filter text, filter mode and case flag.
ActiveViewExact ==
    /\ mode = "Bookmarks" =>
           IsExactView(bookmarks_mgr,
                       BookmarkFilterNew(filter_mode, filter, ignore_case))
    /\ mode = "Labels" =>
           IsExactView(labels_mgr,
                       LabelFilterNew(filter_mode, filter, ignore_case))

\* C10: after a key event that applies the filter, the view of the active list
\* is exactly the entities of its catalog the filter keeps, in catalog order,
\* its length is their number, and the catalogs of both lists are what they
\* were.
C10_FilteredViewExact ==
    [][ReFilter =>
          /\ ActiveViewExact'
          /\ bookmarks_mgr'.items = bookmarks_mgr.items
          /\ labels_mgr'.items = labels_mgr.items]_vars

\* C10 witness: a filter text in ID mode keeps some bookmarks and rejects
\* others.
C10_Witness ==
    /\ mode = "Bookmarks"
    /\ filter_mode = "ID"
    /\ filter # <<>>
    /\ Len(bookmarks_mgr.filtered) > 0
    /\ Len(bookmarks_mgr.filtered) < Len(bookmarks_mgr.items)

----------------------------------------------------------------------------
(* Navigation, checked under Spec *)

\* The list of the current UI mode, before and after a step.
ActiveMgr == IF mode = "Labels" THEN labels_mgr ELSE bookmarks_mgr

\* A step that leaves the UI mode, the filter and both lists' views and
\* catalogs as they are.
OnlyCursorsMove ==
    /\ mode' = mode
    /\ filter' = filter
    /\ filter_mode' = filter_mode
    /\ bookmarks_mgr'.items = bookmarks_mgr.items
    /\ bookmarks_mgr'.filtered = bookmarks_mgr.filtered
    /\ labels_mgr'.items = labels_mgr.items
    /\ labels_mgr'.filtered = labels_mgr.filtered

\* C11: Up with the cursor at 0 leaves it at 0 and Down with the cursor on the
\* last entry of the view leaves it there; otherwise each moves the cursor of
\* the active list by exactly one; on an empty view both change nothing; neither
\* changes a view or a catalog.
C11_NavigationClamps ==
    [][/\ KeyUp /\ mode \in {"Bookmarks", "Labels"} =>
             /\ OnlyCursorsMove
             /\ ActiveMgr'.selected =
                   IF ActiveMgr.selected = 0 \/ Len(ActiveMgr.filtered) = 0
                   THEN ActiveMgr.selected
                   ELSE ActiveMgr.selected - 1
       /\ KeyDown /\ mode \in {"Bookmarks", "Labels"} =>
             /\ OnlyCursorsMove
             /\ ActiveMgr'.selected =
                   IF Len(ActiveMgr.filtered) = 0
                      \/ ActiveMgr.selected = Len(ActiveMgr.filtered) - 1
                   THEN ActiveMgr.selected
                   ELSE ActiveMgr.selected + 1]_vars

\* C11 witness: in Labels mode the cursor has moved down to the last label of
\* a view of at least two, while the bookmark cursor is at 0.
C11_Witness ==
    /\ mode = "Labels"
    /\ Len(labels_mgr.filtered) >= 2
    /\ labels_mgr.selected = Len(labels_mgr.filtered) - 1
    /\ bookmarks_mgr.selected = 0
    /\ filter = <<>>

----------------------------------------------------------------------------
(* Properties of the filter predicates, checked under SpecCalls *)

\* The call of fn has been made.
Called(fn) == call.some /\ call.v.fn = fn /\ call.v.r.some

\* Case normalisation as the claims read it: capitals to small letters when the
\* flag is set.
CaseFold(s, ic) ==
    [i \in 1..Len(s) |->
        IF ~ic THEN s[i]
        ELSE CASE s[i] = "D" -> "d" [] s[i] = "E" -> "e" [] s[i] = "V" -> "v"
               [] OTHER -> s[i]]

\* sub is s or a run of consecutive characters of s.
EqualsOrContains(s, sub) ==
    \/ s = sub
    \/ \E a \in 1..(Len(s) + 1), b \in 0..Len(s) : SubSeq(s, a, b) = sub

\* C12: in Name mode a bookmark is kept iff its name, case-normalised when the
\* flag is set, equals or contains the filter text; in Label mode with a
\* non-empty filter it is kept iff the filter text equals one of its labels
\* (both case-normalised when the flag is set). A bookmark whose only label is
\* "dev" is kept by the Label filter "dev" and rejected by "de".
C12_MatchingAsymmetry ==
    Called("BookmarkFilter::keep") =>
        LET f == call.v.args.f
            b == call.v.args.t
            ft == CaseFold(f.filter, f.ignore_case)
        IN  /\ f.mode = "Name" =>
                (call.v.r.v <=>
                    EqualsOrContains(CaseFold(b.name, f.ignore_case), ft))
            /\ f.mode = "Label" /\ f.filter # <<>> =>
                (call.v.r.v <=>
                    \E i \in 1..Len(b.labels) :
                        CaseFold(b.labels[i], f.ignore_case) = ft)
            /\ f.mode = "Label" /\ b.labels = << <<"d", "e", "v">> >> =>
                /\ f.filter = <<"d", "e", "v">> => call.v.r.v
                /\ f.filter = <<"d", "e">> => ~call.v.r.v

\* C12 witness: the Label filter "de" has rejected the bookmark whose only
\* label is "dev", whose name contains "de".
C12_Witness ==
    /\ Called("BookmarkFilter::keep")
    /\ call.v.args.f.mode = "Label"
    /\ call.v.args.f.filter = <<"d", "e">>
    /\ call.v.args.t.labels = << <<"d", "e", "v">> >>
    /\ call.v.args.t.name = <<"d", "e", "v">>
    /\ call.v.r.v = FALSE

DecimalDigits == <<"0", "1", "2", "3", "4", "5", "6", "7", "8", "9">>

RECURSIVE NumberOf(_)
NumberOf(s) ==
    IF s = <<>> THEN 0
    ELSE 10 * NumberOf(SubSeq(s, 1, Len(s) - 1))
         + (CHOOSE d \in 0..9 : DecimalDigits[d + 1] = s[Len(s)])

\* The decimal string of an id below 100: the digits without leading zero that
\* write it.
DecimalString(n) ==
    CHOOSE s \in UNION {[1..k -> {DecimalDigits[i] : i \in 1..10}] : k \in 1..2} :
        NumberOf(s) = n /\ (Len(s) = 1 \/ s[1] # "0")

IsPrefix(p, s) == Len(p) <= Len(s) /\ \A i \in 1..Len(p) : s[i] = p[i]

\* C14: in ID mode a bookmark or a label is kept iff the decimal string of its
\* id starts with the filter text, and the filter with the other case flag
\* gives the same answer.
C14_IdModePrefix ==
    (Called("BookmarkFilter::keep") \/ Called("LabelFilter::keep")) =>
        (call.v.args.f.mode = "ID" =>
            /\ call.v.r.v <=>
                  IsPrefix(call.v.args.f.filter, DecimalString(call.v.args.t.id))
            /\ call.v.r.v =
                  Keep([call.v.args.f EXCEPT !.ignore_case = ~@], call.v.args.t))

\* C14 witness: the ID filter "1" has rejected the bookmark with id 21.
C14_Witness ==
    /\ Called("BookmarkFilter::keep")
    /\ call.v.args.f.mode = "ID"
    /\ call.v.args.f.filter = <<"1">>
    /\ call.v.args.t.id = 21
    /\ call.v.r.v = FALSE

\* C15: the label filter in Label mode keeps a label iff its name, case-
\* normalised when the flag is set, equals or contains the filter text, which
\* is the answer of the label filter in Name mode.
C15_LabelModeOnLabels ==
    Called("LabelFilter::keep") =>
        (call.v.args.f.mode = "Label" =>
            LET f == call.v.args.f
                l == call.v.args.t
            IN  /\ call.v.r.v <=>
                      EqualsOrContains(CaseFold(l.name, f.ignore_case),
                                       CaseFold(f.filter, f.ignore_case))
                /\ call.v.r.v = Keep([f EXCEPT !.mode = "Name"], l))

\* C15 witness: the label filter "de" in Label mode has kept the label "dev".
C15_Witness ==
    /\ Called("LabelFilter::keep")
    /\ call.v.args.f.mode = "Label"
    /\ call.v.args.f.filter = <<"d", "e">>
    /\ call.v.args.t.name = <<"d", "e", "v">>
    /\ call.v.r.v = TRUE

\* C16: switch_to(X) on mode M returns X when M differs from X and the default
\* mode Name when M is X; called on the default mode and then on its own result
\* with the same X, it returns the default mode.
C16_SwitchToToggles ==
    [][(call'.some /\ call'.v.fn = "Mode::switch_to" /\ call'.v.r.some) =>
          /\ call'.v.r.v = IF call'.v.args.self = call'.v.args.mode
                         THEN "Name"
                         ELSE call'.v.args.mode
          /\ (call'.v.args.nth = 2 /\ call.v.args.self = "Name") =>
                /\ call'.v.args.self = call.v.r.v
                /\ call'.v.args.mode = call.v.args.mode
                /\ call'.v.r.v = "Name"]_vars

\* C16 witness: the second switch_to(ID) in a row, called on ID, has returned
\* Name.
C16_Witness ==
    /\ Called("Mode::switch_to")
    /\ call.v.args = [self |-> "ID", mode |-> "ID", nth |-> 2]
    /\ call.v.r.v = "Name"

----------------------------------------------------------------------------
(* Properties of the main menu, checked under SpecCalls *)

\* The number a counter shows: 0 when it is not drawn.
Shown(counter) == IF counter.some THEN counter.v ELSE 0

\* C17: with height = max(0, rows - reserved rows), the window is
\* [cursor + 1 - height, cursor] when cursor >= height and [0, height - 1]
\* otherwise; the counter above shows the window's begin and the counter below
\* count - 1 - end when count > end + 1 and 0 otherwise (height 3, count 10,
\* cursor 7: window [5, 7], 5 above, 2 below); when height >= 1 the cursor is
\* in the window and no subtraction underflows.
C17_ViewportWindow ==
    Called("render_main_menu") =>
        LET a == call.v.args
            out == call.v.r.v
            height == IF a.rows > RESERVE_ROW_COUNT
                      THEN a.rows - RESERVE_ROW_COUNT ELSE 0
            b == IF a.selected >= height THEN a.selected + 1 - height ELSE 0
            e == IF a.selected >= height THEN a.selected ELSE height - 1
        IN  /\ out.begin = b
            /\ out.end = e
            /\ Shown(out.above) = b
            /\ Shown(out.below) = IF a.count > e + 1 THEN a.count - 1 - e ELSE 0
            /\ height >= 1 =>
                  /\ b <= a.selected /\ a.selected <= e
                  /\ ~out.underflow
            /\ (height = 3 /\ a.count = 10 /\ a.selected = 7) =>
                  /\ out.begin = 5 /\ out.end = 7
                  /\ out.above = Some(5) /\ out.below = Some(2)

\* C17 witness: the menu has been drawn on 8 rows for a view of 10 with the
\* cursor on 7, as rows 5 to 7 with 5 above and 2 below.
C17_Witness ==
    /\ Called("render_main_menu")
    /\ call.v.args.rows = 8
    /\ call.v.args.count = 10
    /\ call.v.args.selected = 7
    /\ call.v.r.v.rows = <<5, 6, 7>>
    /\ call.v.r.v.above = Some(5)
    /\ call.v.r.v.below = Some(2)
    /\ ~call.v.r.v.underflow

----------------------------------------------------------------------------
(* Reload, checked under Spec *)

\* The file cannot be loaded: it cannot be read, it does not parse, or two of
\* its bookmarks have the same name.
FileFails(file) ==
    \/ file.kind # "yaml"
    \/ \E i, j \in 1..Len(file.bookmarks) :
           i < j /\ file.bookmarks[i].name = file.bookmarks[j].name

\* C18: a reload that fails leaves the loaded configuration (bookmarks, global
\* vars and macros) and the catalog and view of both lists exactly as they
\* were.
C18_FailedReloadKeepsState ==
    [][(filter' = <<>> /\ error_message'.some
        /\ \E file \in ReloadFiles : FileFails(file) /\ KeyReload(file)) =>
          /\ config' = config
          /\ bookmarks_mgr'.items = bookmarks_mgr.items
          /\ bookmarks_mgr'.filtered = bookmarks_mgr.filtered
          /\ labels_mgr'.items = labels_mgr.items
          /\ labels_mgr'.filtered = labels_mgr.filtered]_vars

\* C18 witness: after a reload has failed on a file that does not parse, Enter
\* on a bookmark of the configuration loaded before has written its command.
C18_Witness ==
    /\ error_message = Some(LoadFailedMsg(<<"<yaml error>">>))
    /\ written.some
    /\ Len(labels_mgr.items) > 0
    /\ Len(bookmarks_mgr.filtered) > 0

\* The names of the entities of a list, in order.
NamesOf(items) == [i \in 1..Len(items) |-> items[i].name]

\* All labels of the bookmarks of a catalog.
LabelsIn(bookmarks) ==
    UNION {{bookmarks[i].labels[j] : j \in 1..Len(bookmarks[i].labels)} :
              i \in 1..Len(bookmarks)}

\* C19: a reload that succeeds leaves, in the state any later event sees, the
\* bookmark list holding exactly the bookmarks of the file, the label list
\* holding each label of those bookmarks once, both views equal to their
\* catalogs, both cursors at 0 and the filter text empty.
C19_SuccessfulReloadReplacesAll ==
    [][\A file \in ReloadFiles :
          (filter' = <<>> /\ ~FileFails(file) /\ KeyReload(file)) =>
              /\ NamesOf(bookmarks_mgr'.items) = NamesOf(file.bookmarks)
              /\ \A i \in 1..Len(file.bookmarks) :
                    /\ bookmarks_mgr'.items[i].cmds = file.bookmarks[i].cmds
                    /\ bookmarks_mgr'.items[i].labels = file.bookmarks[i].labels
                    /\ bookmarks_mgr'.items[i].vars = file.bookmarks[i].vars
                    /\ bookmarks_mgr'.items[i].exec = file.bookmarks[i].exec
              /\ config'.bookmarks = bookmarks_mgr'.items
              /\ config'.vars = file.vars
              /\ config'.cmds = file.cmds
              /\ {labels_mgr'.items[i].name : i \in 1..Len(labels_mgr'.items)}
                    = LabelsIn(file.bookmarks)
              /\ Len(labels_mgr'.items) = Cardinality(LabelsIn(file.bookmarks))
              /\ bookmarks_mgr'.filtered = bookmarks_mgr'.items
              /\ labels_mgr'.filtered = labels_mgr'.items
              /\ bookmarks_mgr'.selected = 0
              /\ labels_mgr'.selected = 0]_vars

\* C19 witness: the configuration of the second file is loaded and both views
\* are full, while the error of a resolution that only fails in the first file
\* is still pending: the second file came by a reload.
C19_Witness ==
    /\ NamesOf(config.bookmarks) = NamesOf(UIFileB.bookmarks)
    /\ bookmarks_mgr.items = config.bookmarks
    /\ bookmarks_mgr.filtered = bookmarks_mgr.items
    /\ Len(labels_mgr.items) = 2
    /\ labels_mgr.filtered = labels_mgr.items
    /\ filter = <<>>
    /\ error_message = Some(GenFailedMsg(CmdNotFoundMsg(<<"q">>)))

----------------------------------------------------------------------------
(* Properties of deserialize_bookmarks, checked under SpecCalls *)

\* The entries whose name an earlier entry of the sequence has.
SeenEarlier(bookmarks) ==
    {j \in 1..Len(bookmarks) :
        \E i \in 1..(j - 1) : bookmarks[i].name = bookmarks[j].name}

\* C20: if a name occurs more than once in the input, the load fails with an
\* error whose count is the number of entries whose name an earlier entry has,
\* and no catalog is returned; if no name repeats, it succeeds with every entry
\* in input order.
C20_DuplicatesRejectLoad ==
    Called("deserialize_bookmarks") =>
        LET bs == call.v.args.bookmarks
            out == call.v.r.v
        IN  IF SeenEarlier(bs) # {}
            THEN /\ ~out.ok
                 /\ out.val = <<"Duplicate bookmarks names: ">>
                                 \o DecimalString(Cardinality(SeenEarlier(bs)))
            ELSE /\ out.ok
                 /\ Len(out.val) = Len(bs)
                 /\ \A i \in 1..Len(bs) :
                       out.val[i] = [bs[i] EXCEPT !.id = out.val[i].id]

\* C20 witness: of four entries two repeat the name of the first; the load has
\* failed counting 2, although two names are new.
C20_Witness ==
    /\ Called("deserialize_bookmarks")
    /\ NamesOf(call.v.args.bookmarks) = <<NameA, NameB, NameA, NameA>>
    /\ call.v.r.v = Err(<<"Duplicate bookmarks names: ", "2">>)

----------------------------------------------------------------------------
(* Resolution and the plugin state, checked under Spec *)

\* C21: an Enter that resolves a bookmark, with success or not, leaves the
\* catalog, the global vars and macros, the UI mode, the filter text and mode
\* and both lists (catalog, view and cursor) as they were; on success the
\* string is written and the pending error is what it was, on failure nothing
\* is written and the error message is recorded; and resolving the bookmark
\* resolved by the callback before gives the result it gave.
C21_ResolutionReadOnly ==
    [][(gen'.some /\ KeyEnterBookmarks) =>
          /\ config' = config
          /\ exec' = exec
          /\ mode' = mode
          /\ filter' = filter
          /\ filter_mode' = filter_mode
          /\ bookmarks_mgr' = bookmarks_mgr
          /\ labels_mgr' = labels_mgr
          /\ IF gen'.v.r.ok
             THEN /\ written' = Some(gen'.v.r.val)
                  /\ error_message' = error_message
             ELSE /\ written' = None
                  /\ error_message' = Some(GenFailedMsg(gen'.v.r.val))
          /\ (gen.some /\ gen.v.root = gen'.v.root) => gen'.v.r = gen.v.r]_vars

\* C21 witness: with the view narrowed to two bookmarks and the cursor on the
\* second, Enter has failed on a macro that is not there, and the view and the
\* cursor are where they were.
C21_Witness ==
    /\ gen.some
    /\ ~gen.v.r.ok
    /\ mode = "Bookmarks"
    /\ filter = <<"e">>
    /\ Len(bookmarks_mgr.filtered) = 2
    /\ bookmarks_mgr.selected = 1
    /\ gen.v.root = bookmarks_mgr.filtered[2].name
    /\ error_message = Some(GenFailedMsg(CmdNotFoundMsg(<<"q">>)))

----------------------------------------------------------------------------
(* Identifiers, checked under Spec *)

\* The elements of s from position i on that no earlier position of s holds.
RECURSIVE FirstSeenFrom(_, _)
FirstSeenFrom(s, i) ==
    IF i > Len(s) THEN <<>>
    ELSE (IF \E j \in 1..(i - 1) : s[j] = s[i] THEN <<>> ELSE <<s[i]>>)
         \o FirstSeenFrom(s, i + 1)

\* The ids of the entities of a list are 1, 2, ... in the order of the list.
IdsCountUp(items) == \A i \in 1..Len(items) : items[i].id = i

\* The step is a reload of a file that loads.
GoodReload == \E file \in ReloadFiles : ~FileFails(file) /\ KeyReload(file)

\* C22: the bookmarks of the loaded catalog have the ids 1..n in catalog
\* order, whatever ids the file gave; the labels are the labels of the
\* bookmarks in order of first appearance, each once, with the ids 1..k; the
\* lists hold these entities; and no catalog, hence no id, changes by a step
\* that is not a reload of a file that loads.
C22_IdsAssignedAtLoad ==
    /\ [](/\ IdsCountUp(config.bookmarks)
          /\ bookmarks_mgr.items = config.bookmarks
          /\ IdsCountUp(labels_mgr.items)
          /\ NamesOf(labels_mgr.items) =
                FirstSeenFrom(Flatten([i \in 1..Len(config.bookmarks) |->
                                          config.bookmarks[i].labels]), 1)
          /\ \A i, j \in 1..Len(labels_mgr.items) :
                labels_mgr.items[i].name = labels_mgr.items[j].name => i = j)
    /\ [][(\/ config'.bookmarks # config.bookmarks
           \/ bookmarks_mgr'.items # bookmarks_mgr.items
           \/ labels_mgr'.items # labels_mgr.items) => GoodReload]_vars

\* C22 witness: the file whose two bookmarks both give the id 7 is loaded, its
\* bookmarks have the ids 1 and 2, and so have its labels "e" and "de".
C22_Witness ==
    /\ NamesOf(config.bookmarks) = NamesOf(UIFileB.bookmarks)
    /\ UIFileB.bookmarks[1].id = 7
    /\ bookmarks_mgr.items[1].id = 1
    /\ bookmarks_mgr.items[2].id = 2
    /\ labels_mgr.items =
          <<[id |-> 1, name |-> <<"e">>], [id |-> 2, name |-> <<"d", "e">>]>>
    /\ filter # <<>>

----------------------------------------------------------------------------
(* Properties of the UI modes, checked under SpecCalls *)

\* The mode after and the mode before a mode on the cycle Bookmarks, Labels,
\* Usage, Bookmarks.
CycleAfter(m) ==
    CASE m = "Bookmarks" -> "Labels" [] m = "Labels" -> "Usage"
      [] m = "Usage" -> "Bookmarks"

CycleBefore(m) ==
    CASE m = "Bookmarks" -> "Usage" [] m = "Labels" -> "Bookmarks"
      [] m = "Usage" -> "Labels"

\* C23: next returns the mode after its mode on the cycle Bookmarks, Labels,
\* Usage, Bookmarks and prev the mode before it (Bookmarks to Usage); next
\* called on the result of prev, and prev on the result of next, return the mode
\* the first was called on; the third next in a row, and the third prev in a
\* row, return the mode the first was called on.
C23_ModeCycle ==
    (Called("Mode::next") \/ Called("Mode::prev")) =>
        LET a == call.v.args
            n == Len(a.ops)
        IN  /\ call.v.r.v \in UIModes
            /\ call.v.fn = "Mode::next" => call.v.r.v = CycleAfter(a.self)
            /\ call.v.fn = "Mode::prev" => call.v.r.v = CycleBefore(a.self)
            /\ (n >= 1 /\ a.ops[n] # call.v.fn) => call.v.r.v = a.before[n]
            /\ (n >= 2 /\ a.ops[n] = call.v.fn /\ a.ops[n - 1] = call.v.fn) =>
                  call.v.r.v = a.before[n - 1]

\* C23 witness: the third prev in a row, the first having been called on
\* Bookmarks, has returned Bookmarks.
C23_Witness ==
    /\ Called("Mode::prev")
    /\ call.v.args.ops = <<"Mode::prev", "Mode::prev">>
    /\ call.v.args.before = <<"Bookmarks", "Usage">>
    /\ call.v.args.self = "Labels"
    /\ call.v.r.v = "Bookmarks"

----------------------------------------------------------------------------
(* The view and the filter, checked under Spec *)

\* The step is a reload of a file that does not load.
BadReload == \E file \in ReloadFiles : FileFails(file) /\ KeyReload(file)

\* C24: in every reachable state in which the UI mode is Bookmarks or Labels,
\* the view of the list of that mode is exactly the entities of its catalog
\* that the filter made of the current filter text, filter mode and case flag
\* keeps.
C24_ViewMatchesFilter ==
    mode \in {"Bookmarks", "Labels"} => ActiveViewExact

\* A view that matches the filter stops matching it only by a reload of a file
\* that does not load.
ViewBreaksOnlyByBadReload ==
    [][(ActiveViewExact /\ ~ActiveViewExact') => BadReload]_vars

----------------------------------------------------------------------------
(* Enter on a label, checked under SpecLabels *)

\* The bookmarks of items[i..] one of whose labels is name, up to case when ic.
RECURSIVE CarryingFrom(_, _, _, _)
CarryingFrom(items, i, name, ic) ==
    IF i > Len(items) THEN <<>>
    ELSE (IF \E j \in 1..Len(items[i].labels) :
                 CaseFold(items[i].labels[j], ic) = CaseFold(name, ic)
          THEN <<items[i]>> ELSE <<>>)
         \o CarryingFrom(items, i + 1, name, ic)

\* The label under the cursor of the label list.
SelectedLabel == labels_mgr.filtered[labels_mgr.selected + 1]

\* What Enter in Labels mode does whatever the label: the UI mode is Bookmarks,
\* the filter mode Label, the bookmark cursor 0, the catalogs and the label
\* list are what they were.
EnterSwitchesToBookmarks ==
    /\ mode' = "Bookmarks"
    /\ filter_mode' = "Label"
    /\ bookmarks_mgr'.selected = 0
    /\ bookmarks_mgr'.items = bookmarks_mgr.items
    /\ labels_mgr' = labels_mgr

----------------------------------------------------------------------------
(* Window accounting, checked under SpecCalls *)

\* The counter above, the rows drawn and the counter below add up to the
\* length of the view, and the rows drawn are no more than the menu is high.
MenuAddsUp ==
    LET a == call.v.args
        out == call.v.r.v
    IN  /\ ~out.underflow
        /\ Shown(out.above) + Len(out.rows) + Shown(out.below) = a.count
        /\ Len(out.rows) <= SaturatingSub(a.rows, RESERVE_ROW_COUNT)

\* C26: whenever the menu has been drawn on a panel of at least the reserved
\* rows (exactly the reserved rows, height 0, included), for a view of any
\* length (0 included) and a cursor in it, the number shown above plus the rows
\* drawn plus the number shown below is the length of the view, and the rows
\* drawn are at most height.
C26_WindowAccounting ==
    (Called("render_main_menu") /\ call.v.args.rows >= RESERVE_ROW_COUNT) =>
        MenuAddsUp

\* The numbers add up on every accepted panel but for the empty view drawn with
\* height 0.
MenuAddsUpButEmptyAtHeightZero ==
    (/\ Called("render_main_menu")
     /\ call.v.args.rows >= RESERVE_ROW_COUNT
     /\ (call.v.args.rows > RESERVE_ROW_COUNT \/ call.v.args.count > 0)) =>
        MenuAddsUp

----------------------------------------------------------------------------
(* Switching the UI mode, checked under Spec *)

\* Left, Right, or Ctrl with a digit.
ModeKey == KeyRight \/ KeyLeft \/ \E c \in CtrlDigits : KeyCtrlDigit(c)

\* Ctrl with the digit of the current UI mode.
SameModeKey == KeyCtrlDigit(DigitChar(ModeAsU32(mode)))

\* C27: a Left, Right or Ctrl+digit that changes the UI mode leaves the filter
\* text as it was and the filter mode Name; the view of the list of the new
\* mode is exactly what the Name filter with that text keeps of its catalog,
\* and the other list is untouched (both are when the new mode is Usage);
\* Ctrl with the digit of the current mode changes nothing of the state.
C27_ModeSwitchRefilters ==
    [][/\ (mode' # mode /\ ModeKey) =>
             /\ filter_mode' = "Name"
             /\ filter' = filter
             /\ bookmarks_mgr'.items = bookmarks_mgr.items
             /\ labels_mgr'.items = labels_mgr.items
             /\ mode' = "Bookmarks" =>
                   /\ IsExactView(bookmarks_mgr',
                                  BookmarkFilterNew("Name", filter, ignore_case))
                   /\ labels_mgr' = labels_mgr
             /\ mode' = "Labels" =>
                   /\ IsExactView(labels_mgr',
                                  LabelFilterNew("Name", filter, ignore_case))
                   /\ bookmarks_mgr' = bookmarks_mgr
             /\ mode' = "Usage" =>
                   /\ bookmarks_mgr' = bookmarks_mgr
                   /\ labels_mgr' = labels_mgr
       /\ SameModeKey =>
             /\ mode' = mode
             /\ filter_mode' = filter_mode
             /\ filter' = filter
             /\ bookmarks_mgr' = bookmarks_mgr
             /\ labels_mgr' = labels_mgr
             /\ config' = config
             /\ error_message' = error_message]_vars

\* C27 witness: the text "1" typed as an ID filter in Bookmarks mode had
\* narrowed the bookmarks to the one with id 1, whose name has no "1"; the mode
\* is now Usage, the filter mode Name, the text "1", and the bookmark view
\* still what the ID filter made it.
C27_Witness ==
    /\ mode = "Usage"
    /\ filter_mode = "Name"
    /\ filter = <<"1">>
    /\ Len(bookmarks_mgr.items) = 3
    /\ NamesOf(bookmarks_mgr.filtered) = << <<"d", "e">> >>
    /\ bookmarks_mgr.filtered[1].id = 1

----------------------------------------------------------------------------
(* Typing in ID mode, checked under Spec *)

IsDecimalDigit(c) == \E d \in 1..10 : DecimalDigits[d] = c

\* The empty text, or decimal digits the first of which is not 0.
NoLeadingZero(text) ==
    \/ text = <<>>
    \/ /\ \A i \in 1..Len(text) : IsDecimalDigit(text[i])
       /\ text[1] # "0"

\* What a character typed in ID mode does: it is appended to the filter text
\* if it is a decimal digit other than a 0 typed on the empty text, and
\* otherwise the filter text and both lists (views and cursors) stay as they
\* were.
DigitOrRejected(c) ==
    IF IsDecimalDigit(c) /\ (c # "0" \/ filter # <<>>)
    THEN filter' = Append(filter, c)
    ELSE /\ filter' = filter
         /\ bookmarks_mgr' = bookmarks_mgr
         /\ labels_mgr' = labels_mgr

\* A step that leaves the filter mode ID keeps the filter text empty or a digit
\* string not starting with 0, if it was so before, or if the step entered ID
\* mode on the empty text.
StaysNoLeadingZero ==
    (/\ filter_mode' = "ID"
     /\ IF filter_mode = "ID" THEN NoLeadingZero(filter) ELSE filter = <<>>)
    => NoLeadingZero(filter')

\* C28 (as stated): a character typed in Bookmarks or Labels mode while the
\* filter mode is ID is appended only if it is a decimal digit, and not if it
\* is a 0 typed on the empty text; a rejected character leaves the filter
\* text, the views and the cursors unchanged; and the filter text of ID mode
\* entered on the empty text stays empty or a digit string not starting with 0.
C28_IdModeRejects ==
    [][/\ \A c \in TypedChars :
             (/\ filter_mode = "ID"
              /\ mode \in {"Bookmarks", "Labels"}
              /\ KeyChar(c)) => DigitOrRejected(c)
       /\ StaysNoLeadingZero]_vars

\* C28 (amended): the same of a character handled with the filter mode ID,
\* which is the mode after autodetection; a character typed while the filter
\* mode is ID and handled with another mode is a non-digit typed on the empty
\* text with autodetection on: the filter mode becomes Name and the character
\* is appended.
C28_IdModeInput ==
    [][/\ \A c \in TypedChars :
             /\ (/\ filter_mode' = "ID"
                 /\ mode \in {"Bookmarks", "Labels"}
                 /\ KeyChar(c)) => DigitOrRejected(c)
             /\ (/\ filter_mode = "ID"
                 /\ filter_mode' # "ID"
                 /\ mode \in {"Bookmarks", "Labels"}
                 /\ KeyChar(c)) =>
                    /\ detect_filter_mode
                    /\ filter = <<>>
                    /\ ~IsDecimalDigit(c)
                    /\ filter_mode' = "Name"
                    /\ filter' = <<c>>
       /\ StaysNoLeadingZero]_vars

\* C28 witness: in ID mode entered by typing "1" on the empty text, a 0 has
\* been appended after the 1.
C28_Witness ==
    /\ detect_filter_mode
    /\ mode = "Bookmarks"
    /\ filter_mode = "ID"
    /\ filter = <<"1", "0">>
    /\ bookmarks_mgr.filtered = <<>>

----------------------------------------------------------------------------
(* The scope of variables, checked under SpecScopes *)

\* The vars of a bookmark of a chain file as the file gives them: none, or x
\* with the bookmark's own value.
VarsOfFile(b) == {EmptyMap, [k \in {XKey} |-> OwnX(b.name)]}

\* C29: whatever was resolved before, a resolution that succeeds renders each
\* literal and macro token of the resolved bookmark X, standing before or after
\* a reference, with x as X declares it, else as the global vars do, else
\* without a value, and never with the value of a bookmark X references; the
\* part of a reference to N is N's string with X's x overlaid on N's; and every
\* record of the catalog, and of the bookmark list, has the vars the file gave
\* it.
C29_OverlayConfined ==
    /\ \A i \in 1..Len(config.bookmarks) :
           config.bookmarks[i].vars \in VarsOfFile(config.bookmarks[i])
    /\ bookmarks_mgr.items = config.bookmarks
    /\ (gen.some /\ GenRes.ok) =>
           LET own == Overlay(OwnXOf(GenRoot), GlobalXOf)
           IN  GenRes.val =
                   Join([i \in 1..Len(GenRoot.cmds) |->
                            IF RefOf(GenRoot.cmds[i]).some
                            THEN ExpectedOf(RefOf(GenRoot.cmds[i]).v,
                                            OwnXOf(GenRoot))
                            ELSE LeafText(GenRoot.cmds[i], own)],
                        CmdSeparator)

\* C29 witness: A is a literal and then a reference to B; B is a literal; only
\* B defines x. The string shows B's value in B's part only.
C29_Witness ==
    /\ gen.some
    /\ GenRoot.name = NameA
    /\ GenRoot.cmds = <<LitEchoX, BookmarkRef(NameB)>>
    /\ config.bookmarks[2].cmds = <<LitEchoX>>
    /\ ~OwnXOf(GenRoot).some
    /\ OwnXOf(config.bookmarks[2]) = Some(OwnX(NameB))
    /\ ~GlobalXOf.some
    /\ written = Some(<<"echo">> \o CmdSeparator \o <<"echo", " ", "B", "&lt;">>)
====
